---- MODULE Spec2Model ----
(***************************************************************************)
(* Fish-Eco-Sim: the simulation engine (world tick pipeline, simulation    *)
(* clock, agent lifecycle and behaviour state machine, food lifecycle).    *)
(*                                                                         *)
(* The configuration values of config.py are scaled down so that the       *)
(* reachable states can be enumerated; each keeps its name and its role.   *)
(* Energies are integers: every energy value of the program (50.0, the     *)
(* drain of 1 per move, the pellet value 20) is a whole number, so the     *)
(* float arithmetic of the program is exact on them.                       *)
(*                                                                         *)
(* agent/base.py's Agent.update delegates to behavior.decide_next_action,  *)
(* which agent/behavior.py does not define, and its Agent carries neither  *)
(* the `network` nor the `current_behavior_state` attribute behavior.py    *)
(* reads.  AgentUpdate therefore keeps the guard and the ageing of         *)
(* base.py and then runs the two phases behavior.py documents as "called   *)
(* by Agent.update": get_next_state, then execute_current_state.           *)
(***************************************************************************)
EXTENDS Integers, Sequences, FiniteSets, TLC

VARIABLES
    state,             \* SimulationState: tick_count, paused, pending_ticks
    agents,            \* SimulationWorld.agents, in collection order
    food,              \* SimulationWorld.food, in collection order
    selected_agent,    \* SimulationWorld.selected_agent: an agent id or None
    food_spawn_timer,  \* SimulationWorld._food_spawn_timer
    op,                \* the kind of command the driver issued last
    obs,               \* what the last call of update() did, phase by phase
    queued,            \* the steps queued from a settled pause, and the calls
                       \* of update() since, while no other command came
    files,             \* the config editor's files: path -> YAML document
    yaml_io            \* the last call of yaml_io and what each path was saved

vars == <<state, agents, food, selected_agent, food_spawn_timer, op, obs, queued,
          files, yaml_io>>

editor == <<files, yaml_io>>

world == <<state, agents, food, selected_agent, food_spawn_timer>>

---------------------------------------------------------------------------
(* Configuration (config.py), scaled.                                      *)

GRID_COLS == 4
GRID_ROWS == 2
INITIAL_AGENT_COUNT == 2
INITIAL_FOOD_COUNT == 2
FOOD_LIFESPAN_TICKS == 3
FOOD_SPAWN_INTERVAL_TICKS == 2
FOOD_SPAWN_AMOUNT == 1
FOOD_ENERGY_VALUE == 2
BASE_MOVE_INTERVAL_TICKS == 2
BASE_ENERGY_DRAIN_PER_MOVE == 1
BASE_MAX_AGE_TICKS == 5
BASE_VISION_RANGE == 1
BASE_MAX_ENERGY == 4
INITIAL_ENERGY == 2

(* Bounds of the exploration.                                              *)
MaxTicks == 6          \* update() runs its pipeline while tick_count < MaxTicks
MaxPending == 2        \* steps are queued while pending_ticks stays <= MaxPending
MaxJump == 2           \* largest n of step_many(n)

None == 0              \* Python's None, for the two object references

DIRECTIONS == {"N", "S", "E", "W"}

WANDERING == "wandering"
SEEKING_FOOD == "seeking_food"

Cells == (0 .. GRID_COLS - 1) \X (0 .. GRID_ROWS - 1)

Min(a, b) == IF a < b THEN a ELSE b

Abs(n) == IF n < 0 THEN -n ELSE n

RECURSIVE SumSeq(_)
SumSeq(s) == IF s = <<>> THEN 0 ELSE Head(s) + SumSeq(Tail(s))

SelectSeqIdx(s, keep) ==
    \* the subsequence of s at the indices in keep, order preserved
    LET RECURSIVE go(_)
        go(i) == IF i > Len(s) THEN <<>>
                 ELSE IF i \in keep THEN <<s[i]>> \o go(i + 1) ELSE go(i + 1)
    IN go(1)

---------------------------------------------------------------------------
(* world/sim.py: SimulationState                                           *)

NewSimulationState == [tick_count |-> 0, paused |-> FALSE, pending_ticks |-> 0]

is_running_owing_nothing(st) == ~st.paused \/ st.pending_ticks >= 0

is_running(st) == ~st.paused \/ st.pending_ticks > 0

increment_tick_always_consumes(st) ==
    [st EXCEPT !.tick_count = @ + 1, !.pending_ticks = @ - 1]

increment_tick_never_consumes(st) == [st EXCEPT !.tick_count = @ + 1]

increment_tick(st) ==
    [st EXCEPT !.tick_count = @ + 1,
               !.pending_ticks = IF @ > 0 THEN @ - 1 ELSE @]

toggle_pause(st) ==
    LET p == ~st.paused
    IN [st EXCEPT !.paused = p,
                  !.pending_ticks = IF p THEN 0 ELSE @]

step_once_while_running(st) == [st EXCEPT !.pending_ticks = @ + 1]

step_once(st) ==
    IF st.paused THEN [st EXCEPT !.pending_ticks = @ + 1] ELSE st

step_many_advances_clock(st, n) ==
    IF st.paused /\ n > 0
    THEN [st EXCEPT !.pending_ticks = @ + n, !.tick_count = @ + n] ELSE st

step_many(st, n) ==
    IF st.paused /\ n > 0 THEN [st EXCEPT !.pending_ticks = @ + n] ELSE st

---------------------------------------------------------------------------
(* agent/traits.py, agent/neural_net.py, agent/base.py: construction       *)

AgentTraits ==
    [max_energy |-> BASE_MAX_ENERGY,
     energy |-> INITIAL_ENERGY,
     move_interval_ticks |-> BASE_MOVE_INTERVAL_TICKS,
     max_age |-> BASE_MAX_AGE_TICKS,
     vision_range |-> BASE_VISION_RANGE,
     energy_drain_per_move |-> BASE_ENERGY_DRAIN_PER_MOVE,
     age |-> 0]

(* A network is fixed at construction.  Its output is                      *)
(* sigmoid(hidden . W_out + 0) with every hidden activation in (0, 1), so  *)
(* it lies above, at or below 0.5 for every input when the entries of      *)
(* W_out are all positive, all zero or all negative.  `sign` names which   *)
(* of the three the construction drew; outputs are in tenths.              *)
NetSigns == {-1, 0, 1}

NeuralNetwork(input_size, sign) == [input_size |-> input_size, sign |-> sign]

INPUT_SIZE == 2

forward_accepting_any(network, input_data) ==
    [raised |-> FALSE, out |-> 5 + network.sign]

forward(network, input_data) ==
    IF Len(input_data) # network.input_size
    THEN [raised |-> TRUE, out |-> 0]
    ELSE [raised |-> FALSE, out |-> 5 + network.sign]

DecisionBehavior(sign) ==
    [current_behavior_state |-> WANDERING,
     network |-> NeuralNetwork(INPUT_SIZE, sign)]

NewAgent(id, x, y, direction, sign) ==
    [id |-> id, x |-> x, y |-> y, direction |-> direction,
     traits |-> AgentTraits,
     tick_counter |-> 0, alive |-> TRUE, target |-> None,
     current_behavior_state |-> DecisionBehavior(sign).current_behavior_state,
     network |-> DecisionBehavior(sign).network]

(* world/food.py                                                           *)

FoodPellet(id, x, y, lifespan, energy_value) ==
    [id |-> id, x |-> x, y |-> y, lifespan |-> lifespan, age |-> 0,
     energy_value |-> energy_value]

pellet_update(p) == [p EXCEPT !.age = @ + 1]

is_expired_a_tick_late(p) == p.age > p.lifespan

is_expired(p) == p.age >= p.lifespan

---------------------------------------------------------------------------
(* agent/movement.py                                                       *)

get_direction_delta(direction) ==
    CASE direction = "N" -> <<0, -1>>
      [] direction = "S" -> <<0, 1>>
      [] direction = "E" -> <<1, 0>>
      [] direction = "W" -> <<-1, 0>>
      [] OTHER -> <<0, 0>>

(* redirect is what the two random draws of move_agent came to: "keep"     *)
(* when random.random() >= 0.1, otherwise the direction drawn, of which    *)
(* two are enumerated.                                                     *)
Redirects == {"keep", "S", "W"}

move_agent_without_wrap(a, redirect) ==
    LET d == get_direction_delta(a.direction)
        new_y == a.y + d[2]
    IN [a EXCEPT !.x = a.x + d[1],
                 !.y = IF 0 <= new_y /\ new_y < GRID_ROWS THEN new_y ELSE @,
                 !.direction = IF a.target = None /\ redirect # "keep"
                               THEN redirect ELSE @]

move_agent_wrapping_rows(a, redirect) ==
    LET d == get_direction_delta(a.direction)
    IN [a EXCEPT !.x = (a.x + d[1]) % GRID_COLS,
                 !.y = (a.y + d[2]) % GRID_ROWS,
                 !.direction = IF a.target = None /\ redirect # "keep"
                               THEN redirect ELSE @]

move_agent_on(a, redirect, cols, rows) ==
    \* move_agent, GRID_COLS and GRID_ROWS being cols and rows
    LET d == get_direction_delta(a.direction)
        new_x == a.x + d[1]
        new_y == a.y + d[2]
    IN [a EXCEPT !.x = new_x % cols,
                 !.y = IF 0 <= new_y /\ new_y < rows THEN new_y ELSE @,
                 !.direction = IF a.target = None /\ redirect # "keep"
                               THEN redirect ELSE @]

move_agent(a, redirect) == move_agent_on(a, redirect, GRID_COLS, GRID_ROWS)

---------------------------------------------------------------------------
(* agent/behavior.py                                                       *)

WrapDx(dx, cols) ==
    \* Python: -cols // 2 is floor(-cols / 2)
    IF dx > cols \div 2 THEN dx - cols
    ELSE IF dx < (-cols) \div 2 THEN dx + cols
    ELSE dx

DistSq_without_wrap(ax, ay, px, py, cols) ==
    (px - ax) * (px - ax) + (py - ay) * (py - ay)

DistSq(ax, ay, px, py, cols) ==
    LET dx == WrapDx(px - ax, cols)
        dy == py - ay
    IN dx * dx + dy * dy

RECURSIVE FindScan(_, _, _, _, _)
FindScan(a, food_list, i, nearest, min_dist_sq) ==
    \* min_dist_sq = -1 stands for float('inf')
    IF i > Len(food_list) THEN nearest
    ELSE LET pellet == food_list[i]
             dist_sq == DistSq(a.x, a.y, pellet.x, pellet.y, GRID_COLS)
             vision_range_sq == a.traits.vision_range * a.traits.vision_range
         IN IF pellet.energy_value <= 0
            THEN FindScan(a, food_list, i + 1, nearest, min_dist_sq)
            ELSE IF dist_sq <= vision_range_sq
                    /\ (min_dist_sq = -1 \/ dist_sq < min_dist_sq)
                 THEN FindScan(a, food_list, i + 1, pellet.id, dist_sq)
                 ELSE FindScan(a, food_list, i + 1, nearest, min_dist_sq)

find_nearest_food(a, food_list) == FindScan(a, food_list, 1, None, -1)

get_food_sensing_data_vector(a, food_list) ==
    <<IF find_nearest_food(a, food_list) # None THEN 10 ELSE 0>>

get_observation(a, food_list) ==
    \* tenths: [energy / max_energy, sees_food_flag]
    LET normalized_energy ==
            IF a.traits.max_energy > 0
            THEN (10 * a.traits.energy) \div a.traits.max_energy ELSE 0
    IN <<normalized_energy>> \o get_food_sensing_data_vector(a, food_list)

decision_threshold == 5

get_next_state_targeting_on_entry(a, food_list) ==
    LET network_output == forward(a.network, get_observation(a, food_list))
        food_is_currently_visible == find_nearest_food(a, food_list) # None
    IN IF network_output.raised
       THEN [raised |-> TRUE, next_state |-> a.current_behavior_state, agent |-> a]
       ELSE IF network_output.out > decision_threshold /\ food_is_currently_visible
       THEN [raised |-> FALSE, next_state |-> SEEKING_FOOD,
             agent |-> IF a.current_behavior_state # SEEKING_FOOD
                       THEN [a EXCEPT !.target = find_nearest_food(a, food_list)]
                       ELSE a]
       ELSE [raised |-> FALSE, next_state |-> WANDERING,
             agent |-> IF a.current_behavior_state # WANDERING
                       THEN [a EXCEPT !.target = None] ELSE a]

get_next_state_keeping_target(a, food_list) ==
    LET network_output == forward(a.network, get_observation(a, food_list))
        food_is_currently_visible == find_nearest_food(a, food_list) # None
    IN IF network_output.raised
       THEN [raised |-> TRUE, next_state |-> a.current_behavior_state, agent |-> a]
       ELSE IF network_output.out > decision_threshold /\ food_is_currently_visible
       THEN [raised |-> FALSE, next_state |-> SEEKING_FOOD,
             agent |-> [a EXCEPT !.target = find_nearest_food(a, food_list)]]
       ELSE [raised |-> FALSE, next_state |-> WANDERING, agent |-> a]

get_next_state_at_threshold(a, food_list) ==
    LET network_output == forward(a.network, get_observation(a, food_list))
        food_is_currently_visible == find_nearest_food(a, food_list) # None
    IN IF network_output.raised
       THEN [raised |-> TRUE, next_state |-> a.current_behavior_state, agent |-> a]
       ELSE IF network_output.out >= decision_threshold /\ food_is_currently_visible
       THEN [raised |-> FALSE, next_state |-> SEEKING_FOOD,
             agent |-> [a EXCEPT !.target = find_nearest_food(a, food_list)]]
       ELSE [raised |-> FALSE, next_state |-> WANDERING,
             agent |-> IF a.current_behavior_state # WANDERING
                       THEN [a EXCEPT !.target = None] ELSE a]

get_next_state(a, food_list) ==
    \* the agent with target as the function leaves it, and the state returned
    LET network_output == forward(a.network, get_observation(a, food_list))
        food_is_currently_visible == find_nearest_food(a, food_list) # None
    IN IF network_output.raised
       THEN [raised |-> TRUE, next_state |-> a.current_behavior_state, agent |-> a]
       ELSE IF network_output.out > decision_threshold /\ food_is_currently_visible
       THEN [raised |-> FALSE, next_state |-> SEEKING_FOOD,
             agent |-> [a EXCEPT !.target = find_nearest_food(a, food_list)]]
       ELSE [raised |-> FALSE, next_state |-> WANDERING,
             agent |-> IF a.current_behavior_state # WANDERING
                       THEN [a EXCEPT !.target = None] ELSE a]

move_towards_target_on_rows_first(a, target_x, target_y, cols) ==
    \* heads along the rows whenever dy # 0, and never along the columns
    LET dy == target_y - a.y
    IN IF dy # 0 THEN (IF dy > 0 THEN "S" ELSE "N") ELSE a.direction

move_towards_target_on(a, target_x, target_y, cols) ==
    \* the direction the function leaves the agent with, GRID_COLS being cols
    LET dx == WrapDx(target_x - a.x, cols)
        dy == target_y - a.y
    IN IF dx # 0 /\ (Abs(dx) >= Abs(dy) \/ dy = 0)
       THEN (IF dx > 0 THEN "E" ELSE "W")
       ELSE IF dy # 0
       THEN (IF dy > 0 THEN "S" ELSE "N")
       ELSE a.direction

move_towards_target(a, target_x, target_y) ==
    move_towards_target_on(a, target_x, target_y, GRID_COLS)

PayMove_surviving(a) ==
    [a EXCEPT !.traits.energy = @ - a.traits.energy_drain_per_move]

PayMove(a) ==
    \* energy drain per move, then the energy death check
    LET paid == [a EXCEPT !.traits.energy = @ - a.traits.energy_drain_per_move]
    IN IF paid.traits.energy <= 0 THEN [paid EXCEPT !.alive = FALSE] ELSE paid

PelletById(food_list, id) ==
    CHOOSE p \in {food_list[i] : i \in 1 .. Len(food_list)} : p.id = id

TargetValid_ignoring_energy(a, food_list) ==
    /\ a.target # None
    /\ \E i \in 1 .. Len(food_list) : food_list[i].id = a.target

TargetValid(a, food_list) ==
    /\ a.target # None
    /\ \E i \in 1 .. Len(food_list) :
          food_list[i].id = a.target /\ food_list[i].energy_value > 0

execute_current_state_never_resetting(a, food_list, redirect) ==
    LET counted == [a EXCEPT !.tick_counter = @ + 1]
        due == counted.tick_counter >= a.traits.move_interval_ticks
        reset == counted
    IN IF a.current_behavior_state = WANDERING
       THEN (IF due THEN PayMove(move_agent(reset, redirect)) ELSE counted)
       ELSE IF a.current_behavior_state = SEEKING_FOOD
       THEN (IF ~TargetValid(a, food_list)
             THEN [a EXCEPT !.target = None]
             ELSE IF ~due THEN counted
             ELSE LET t == PelletById(food_list, a.target)
                      turned == [reset EXCEPT
                                    !.direction = move_towards_target(reset, t.x, t.y)]
                      moved == PayMove(move_agent(turned, redirect))
                  IN IF ~moved.alive THEN moved
                     ELSE IF moved.x = t.x /\ moved.y = t.y
                     THEN [moved EXCEPT !.target = None]
                     ELSE moved)
       ELSE a

execute_current_state(a, food_list, redirect) ==
    LET counted == [a EXCEPT !.tick_counter = @ + 1]
        due == counted.tick_counter >= a.traits.move_interval_ticks
        reset == [counted EXCEPT !.tick_counter = 0]
    IN IF a.current_behavior_state = WANDERING
       THEN (IF due THEN PayMove(move_agent(reset, redirect)) ELSE counted)
       ELSE IF a.current_behavior_state = SEEKING_FOOD
       THEN (IF ~TargetValid(a, food_list)
             THEN [a EXCEPT !.target = None]
             ELSE IF ~due THEN counted
             ELSE LET t == PelletById(food_list, a.target)
                      turned == [reset EXCEPT
                                    !.direction = move_towards_target(reset, t.x, t.y)]
                      moved == PayMove(move_agent(turned, redirect))
                  IN IF ~moved.alive THEN moved
                     ELSE IF moved.x = t.x /\ moved.y = t.y
                     THEN [moved EXCEPT !.target = None]
                     ELSE moved)
       ELSE a

---------------------------------------------------------------------------
(* agent/base.py: Agent.update and Agent.eat                               *)

AgeAgent_a_tick_late(a) ==
    LET aged == [a EXCEPT !.traits.age = @ + 1]
    IN IF aged.traits.age > aged.traits.max_age
       THEN [aged EXCEPT !.alive = FALSE] ELSE aged

AgeAgent_never_too_old(a) == [a EXCEPT !.traits.age = @ + 1]

AgeAgent(a) ==
    \* the ageing and the old-age death check
    LET aged == [a EXCEPT !.traits.age = @ + 1]
    IN IF aged.traits.age >= aged.traits.max_age
       THEN [aged EXCEPT !.alive = FALSE] ELSE aged

BehaviorStep(a, food_list, redirect) ==
    \* transition phase, then execution phase
    LET r == get_next_state(a, food_list)
        entered == [r.agent EXCEPT !.current_behavior_state = r.next_state]
    IN IF r.raised THEN a ELSE execute_current_state(entered, food_list, redirect)

AgentRaises(a, food_list) ==
    \* the update of a ends in the ValueError of forward
    a.alive /\ AgeAgent(a).alive /\ get_next_state(AgeAgent(a), food_list).raised

AgentUpdate(a, food_list, redirect) ==
    IF ~a.alive THEN a
    ELSE LET aged == AgeAgent(a)
         IN IF ~aged.alive THEN aged
            ELSE BehaviorStep(aged, food_list, redirect)

eat_leaving_value(a, pellet) ==
    IF pellet.energy_value > 0
    THEN [agent |-> [a EXCEPT !.traits.energy = @ + pellet.energy_value,
                              !.target = IF @ = pellet.id THEN None ELSE @],
          pellet |-> pellet]
    ELSE [agent |-> a, pellet |-> pellet]

eat(a, pellet) ==
    \* the agent and the pellet as the call leaves them
    IF pellet.energy_value > 0
    THEN [agent |-> [a EXCEPT !.traits.energy = @ + pellet.energy_value,
                              !.target = IF @ = pellet.id THEN None ELSE @],
          pellet |-> [pellet EXCEPT !.energy_value = 0]]
    ELSE [agent |-> a, pellet |-> pellet]

---------------------------------------------------------------------------
(* world/__init__.py: SimulationWorld                                      *)

(* Construction draws every position, direction and weight at random; the  *)
(* starts enumerated here are some of those draws.                         *)
Start(c1, d1, s1, c2, d2, s2, f1, f2) ==
    [agents |-> <<[cell |-> c1, direction |-> d1, sign |-> s1],
                  [cell |-> c2, direction |-> d2, sign |-> s2]>>,
     food |-> <<f1, f2>>]

Starts ==
    {Start(<<0, 0>>, "E", 1, <<0, 0>>, "N", -1, <<0, 0>>, <<1, 0>>),
     Start(<<0, 0>>, "E", 1, <<3, 1>>, "W", 0, <<0, 0>>, <<0, 0>>),
     Start(<<0, 0>>, "N", -1, <<3, 1>>, "W", 0, <<0, 0>>, <<1, 0>>),
     Start(<<2, 1>>, "S", 1, <<2, 1>>, "E", 1, <<0, 1>>, <<2, 0>>),
     Start(<<3, 0>>, "E", -1, <<0, 1>>, "W", 1, <<0, 0>>, <<3, 1>>),
     Start(<<1, 1>>, "S", 0, <<1, 0>>, "N", 1, <<1, 1>>, <<1, 1>>),
     Start(<<1, 0>>, "N", -1, <<0, 1>>, "E", 1, <<3, 0>>, <<3, 0>>),
     Start(<<3, 0>>, "E", -1, <<0, 1>>, "W", 0, <<0, 0>>, <<0, 0>>)}

_spawn_initial_agents(starts) ==
    [i \in 1 .. INITIAL_AGENT_COUNT |->
        NewAgent(i, starts[i].cell[1], starts[i].cell[2],
                 starts[i].direction, starts[i].sign)]

_spawn_initial_food(cells) ==
    [i \in 1 .. INITIAL_FOOD_COUNT |->
        FoodPellet(i, cells[i][1], cells[i][2], FOOD_LIFESPAN_TICKS, FOOD_ENERGY_VALUE)]

NoObs ==
    [ran |-> FALSE, raised |-> FALSE,
     before |-> <<>>, updated |-> <<>>, aged_food |-> <<>>, kept_food |-> <<>>,
     fed |-> <<>>, eaten |-> {}, spawned |-> 0, selected |-> None,
     clicked |-> <<>>, found |-> None, clock |-> NewSimulationState,
     input |-> <<>>, output |-> 0]

Construct(starts, fcells) ==
    /\ state' = NewSimulationState
    /\ agents' = _spawn_initial_agents(starts)
    /\ food' = _spawn_initial_food(fcells)
    /\ selected_agent' = None
    /\ food_spawn_timer' = 0

RECURSIVE EatAll(_, _, _)
EatAll(a, fd, js) ==
    \* a eats every pellet of fd at the indices js
    IF js = {} THEN [agent |-> a, food |-> fd]
    ELSE LET j == CHOOSE k \in js : \A m \in js : k <= m
             r == eat(a, fd[j])
         IN EatAll(r.agent, [fd EXCEPT ![j] = r.pellet], js \ {j})

RECURSIVE EatScan_eating_all_at_location(_, _, _, _)
EatScan_eating_all_at_location(ags, fd, i, eaten) ==
    IF i > Len(ags) THEN [agents |-> ags, food |-> fd, eaten |-> eaten]
    ELSE IF ~ags[i].alive THEN EatScan_eating_all_at_location(ags, fd, i + 1, eaten)
    ELSE LET food_at_location_indices ==
                 {j \in 1 .. Len(fd) : /\ fd[j].x = ags[i].x
                                       /\ fd[j].y = ags[i].y
                                       /\ fd[j].energy_value > 0}
             r == EatAll(ags[i], fd, food_at_location_indices)
         IN EatScan_eating_all_at_location([ags EXCEPT ![i] = r.agent], r.food,
                                           i + 1, eaten \cup food_at_location_indices)

RECURSIVE EatScan_feeding_the_dead(_, _, _, _)
EatScan_feeding_the_dead(ags, fd, i, eaten) ==
    IF i > Len(ags) THEN [agents |-> ags, food |-> fd, eaten |-> eaten]
    ELSE LET food_at_location_indices ==
                 {j \in 1 .. Len(fd) : /\ fd[j].x = ags[i].x
                                       /\ fd[j].y = ags[i].y
                                       /\ fd[j].energy_value > 0}
         IN IF food_at_location_indices = {}
            THEN EatScan_feeding_the_dead(ags, fd, i + 1, eaten)
            ELSE LET food_index_to_eat ==
                         CHOOSE j \in food_at_location_indices :
                             \A k \in food_at_location_indices : j <= k
                     r == eat(ags[i], fd[food_index_to_eat])
                 IN EatScan_feeding_the_dead([ags EXCEPT ![i] = r.agent],
                                             [fd EXCEPT ![food_index_to_eat] = r.pellet],
                                             i + 1, eaten \cup {food_index_to_eat})

RECURSIVE EatScan(_, _, _, _)
EatScan(ags, fd, i, eaten) ==
    \* the loop over the agents: fd carries the energy values eat() zeroes
    IF i > Len(ags) THEN [agents |-> ags, food |-> fd, eaten |-> eaten]
    ELSE IF ~ags[i].alive THEN EatScan(ags, fd, i + 1, eaten)
    ELSE LET food_at_location_indices ==
                 {j \in 1 .. Len(fd) : /\ fd[j].x = ags[i].x
                                       /\ fd[j].y = ags[i].y
                                       /\ fd[j].energy_value > 0}
         IN IF food_at_location_indices = {} THEN EatScan(ags, fd, i + 1, eaten)
            ELSE LET food_index_to_eat ==
                         CHOOSE j \in food_at_location_indices :
                             \A k \in food_at_location_indices : j <= k
                     r == eat(ags[i], fd[food_index_to_eat])
                 IN EatScan([ags EXCEPT ![i] = r.agent],
                            [fd EXCEPT ![food_index_to_eat] = r.pellet],
                            i + 1, eaten \cup {food_index_to_eat})

_handle_agent_food_interaction(ags, fd) ==
    \* agents and food as the pass leaves them; eaten: the indices popped
    LET r == EatScan(ags, fd, 1, {})
    IN [agents |-> r.agents,
        food |-> SelectSeqIdx(r.food, (1 .. Len(fd)) \ r.eaten),
        eaten |-> r.eaten]

_spawn_food_over_time_counting_while_paused(st, timer, fd, cells) ==
    IF st.paused
    THEN [timer |-> (timer + 1) % FOOD_SPAWN_INTERVAL_TICKS, food |-> fd, spawned |-> 0]
    ELSE IF timer + 1 >= FOOD_SPAWN_INTERVAL_TICKS
    THEN [timer |-> 0,
          food |-> fd \o [k \in 1 .. FOOD_SPAWN_AMOUNT |->
                            FoodPellet(INITIAL_FOOD_COUNT
                                         + (st.tick_count - 1) * FOOD_SPAWN_AMOUNT + k,
                                       cells[k][1], cells[k][2],
                                       FOOD_LIFESPAN_TICKS, FOOD_ENERGY_VALUE)],
          spawned |-> FOOD_SPAWN_AMOUNT]
    ELSE [timer |-> timer + 1, food |-> fd, spawned |-> 0]

_spawn_food_over_time_while_stepping(st, timer, fd, cells) ==
    IF timer + 1 >= FOOD_SPAWN_INTERVAL_TICKS
    THEN [timer |-> 0,
          food |-> fd \o [k \in 1 .. FOOD_SPAWN_AMOUNT |->
                            FoodPellet(INITIAL_FOOD_COUNT
                                         + (st.tick_count - 1) * FOOD_SPAWN_AMOUNT + k,
                                       cells[k][1], cells[k][2],
                                       FOOD_LIFESPAN_TICKS, FOOD_ENERGY_VALUE)],
          spawned |-> FOOD_SPAWN_AMOUNT]
    ELSE [timer |-> timer + 1, food |-> fd, spawned |-> 0]

_spawn_food_over_time(st, timer, fd, cells) ==
    \* cells: the FOOD_SPAWN_AMOUNT random cells, used only when a batch is due
    IF st.paused THEN [timer |-> timer, food |-> fd, spawned |-> 0]
    ELSE IF timer + 1 >= FOOD_SPAWN_INTERVAL_TICKS
    THEN [timer |-> 0,
          food |-> fd \o [k \in 1 .. FOOD_SPAWN_AMOUNT |->
                            FoodPellet(INITIAL_FOOD_COUNT
                                         + (st.tick_count - 1) * FOOD_SPAWN_AMOUNT + k,
                                       cells[k][1], cells[k][2],
                                       FOOD_LIFESPAN_TICKS, FOOD_ENERGY_VALUE)],
          spawned |-> FOOD_SPAWN_AMOUNT]
    ELSE [timer |-> timer + 1, food |-> fd, spawned |-> 0]

UpdateAgents(ags, fd, redirects) ==
    \* the loop `for agent in self.agents: agent.update(self)`
    [i \in 1 .. Len(ags) |-> AgentUpdate(ags[i], fd, redirects[i])]

ExpireFood_keeping_all(fd) == fd

ExpireFood(fd) ==
    SelectSeqIdx(fd, {i \in 1 .. Len(fd) : ~is_expired(fd[i])})

AgentById(ags, id) ==
    CHOOSE a \in {ags[i] : i \in 1 .. Len(ags)} : a.id = id

ClearDeadSelection_keeping(sel, ags) == sel

ClearDeadSelection(sel, ags) ==
    IF sel # None /\ ~AgentById(ags, sel).alive THEN None ELSE sel

RemoveDead_keeping_all(ags) == ags

RemoveDead(ags) ==
    SelectSeqIdx(ags, {i \in 1 .. Len(ags) : ags[i].alive})

RaisedAt(ags, fd) ==
    \* the first agent whose update ends in forward's ValueError, or 0
    LET r == {i \in 1 .. Len(ags) : AgentRaises(ags[i], fd)}
    IN IF r = {} THEN 0 ELSE CHOOSE i \in r : \A k \in r : i <= k

update(redirects, cells) ==
    IF ~is_running(state)
    THEN /\ UNCHANGED world
         /\ obs' = NoObs
    ELSE LET st == increment_tick(state)
             k == RaisedAt(agents, food)
             updated == UpdateAgents(agents, food, redirects)
             aged_food == [i \in 1 .. Len(food) |-> pellet_update(food[i])]
             kept_food == ExpireFood(aged_food)
             meal == _handle_agent_food_interaction(updated, kept_food)
             spawn == _spawn_food_over_time(st, food_spawn_timer, meal.food, cells)
         IN IF k # 0
            THEN \* the exception leaves update() in the middle of the agent loop
                 /\ state' = st
                 /\ agents' = [i \in 1 .. Len(agents) |->
                                 IF i < k THEN updated[i]
                                 ELSE IF i = k THEN AgeAgent(agents[i])
                                 ELSE agents[i]]
                 /\ UNCHANGED <<food, food_spawn_timer, selected_agent>>
                 /\ obs' = [NoObs EXCEPT !.ran = TRUE, !.raised = TRUE,
                                         !.before = agents]
            ELSE /\ state' = st
                 /\ agents' = RemoveDead(meal.agents)
                 /\ food' = spawn.food
                 /\ food_spawn_timer' = spawn.timer
                 /\ selected_agent' = ClearDeadSelection(selected_agent, meal.agents)
                 /\ obs' = [ran |-> TRUE, raised |-> FALSE,
                            before |-> agents, updated |-> updated,
                            aged_food |-> aged_food, kept_food |-> kept_food,
                            fed |-> meal.agents,
                            eaten |-> {kept_food[j].id : j \in meal.eaten},
                            spawned |-> spawn.spawned,
                            selected |-> selected_agent,
                            clicked |-> <<>>, found |-> None,
                            clock |-> NewSimulationState, input |-> <<>>,
                            output |-> 0]

clicked_agent_first_in_order(ags, col, row) ==
    LET at == {i \in 1 .. Len(ags) :
                  ags[i].alive /\ ags[i].x = col /\ ags[i].y = row}
    IN IF at = {} THEN None
       ELSE ags[CHOOSE i \in at : \A k \in at : i <= k].id

clicked_agent(ags, col, row) ==
    \* the loop over reversed(self.agents)
    LET at == {i \in 1 .. Len(ags) :
                  ags[i].alive /\ ags[i].x = col /\ ags[i].y = row}
    IN IF at = {} THEN None
       ELSE ags[CHOOSE i \in at : \A k \in at : k <= i].id

select_agent_at(col, row) ==
    /\ selected_agent' = clicked_agent(agents, col, row)
    /\ UNCHANGED <<state, agents, food, food_spawn_timer>>

---------------------------------------------------------------------------
(* src/modules/config_editor/yaml_io.py                                    *)

(* Python values.  A scalar carries its text; a list or a tuple carries    *)
(* its items; a dict carries its entries, each a key and a value.          *)
PyNone == [t |-> "none", s |-> "null"]

PyBool(s) == [t |-> "bool", s |-> s]

PyInt(s) == [t |-> "int", s |-> s]

PyStr(s) == [t |-> "str", s |-> s]

PyList(items) == [t |-> "list", items |-> items]

PyTuple(items) == [t |-> "tuple", items |-> items]

PyDict(items) == [t |-> "dict", items |-> items]

Raised(error) == [t |-> "raise", s |-> error]

IsRaised(v) == v.t = "raise"

(* A YAML document: a plain or quoted scalar, a block sequence, a block    *)
(* mapping, a node with an explicit tag, or nothing at all.                *)
Plain(s) == [n |-> "plain", s |-> s]

Quoted(s) == [n |-> "quoted", s |-> s]

SeqNode(items) == [n |-> "seq", items |-> items]

MapNode(items) == [n |-> "map", items |-> items]

Tagged(tag, items) == [n |-> "tagged", tag |-> tag, items |-> items]

EmptyDocument == [n |-> "empty"]

Absent == [n |-> "absent"]

(* The implicit resolver: the type a plain scalar of this text is read as. *)
Resolve(s) ==
    CASE s \in {"", "~", "null"} -> "none"
      [] s \in {"true", "false", "yes", "no", "on", "off"} -> "bool"
      [] s \in {"7", "100"} -> "int"
      [] OTHER -> "str"

RepresentStr_unquoted(v) == Plain(v.s)

RepresentStr(v) ==
    \* the emitter quotes a string a plain scalar would not be read back as
    IF Resolve(v.s) = "str" THEN Plain(v.s) ELSE Quoted(v.s)

RECURSIVE yaml_dump(_)
yaml_dump(v) ==
    \* yaml.dump with the full Dumper: a tuple gets a python-specific tag
    CASE v.t \in {"none", "bool", "int"} -> Plain(v.s)
      [] v.t = "str" -> RepresentStr(v)
      [] v.t = "list" -> SeqNode([i \in 1 .. Len(v.items) |-> yaml_dump(v.items[i])])
      [] v.t = "tuple" ->
            Tagged("python/tuple",
                   [i \in 1 .. Len(v.items) |-> yaml_dump(v.items[i])])
      [] v.t = "dict" ->
            MapNode([i \in 1 .. Len(v.items) |->
                    [k |-> yaml_dump(v.items[i].k), v |-> yaml_dump(v.items[i].v)]])

RECURSIVE yaml_safe_load(_)
yaml_safe_load(d) ==
    \* yaml.safe_load: the SafeLoader constructs no python-specific tag
    CASE d.n = "empty" -> PyNone
      [] d.n = "quoted" -> PyStr(d.s)
      [] d.n = "plain" ->
            (CASE Resolve(d.s) = "none" -> PyNone
               [] Resolve(d.s) = "bool" ->
                     PyBool(IF d.s \in {"true", "yes", "on"} THEN "true" ELSE "false")
               [] Resolve(d.s) = "int" -> PyInt(d.s)
               [] OTHER -> PyStr(d.s))
      [] d.n = "seq" ->
            LET items == [i \in 1 .. Len(d.items) |-> yaml_safe_load(d.items[i])]
            IN IF \E i \in 1 .. Len(items) : IsRaised(items[i])
               THEN Raised("ConstructorError") ELSE PyList(items)
      [] d.n = "map" ->
            LET items == [i \in 1 .. Len(d.items) |->
                             [k |-> yaml_safe_load(d.items[i].k),
                              v |-> yaml_safe_load(d.items[i].v)]]
            IN IF \E i \in 1 .. Len(items) :
                     IsRaised(items[i].k) \/ IsRaised(items[i].v)
               THEN Raised("ConstructorError") ELSE PyDict(items)
      [] d.n = "tagged" -> Raised("ConstructorError")

load_yaml_file(fs, filepath) ==
    \* the value returned, or the exception re-raised
    IF fs[filepath] = Absent THEN Raised("FileNotFoundError")
    ELSE yaml_safe_load(fs[filepath])

save_yaml_file(fs, data, filepath) ==
    \* open(filepath, 'w') truncates: the document replaces what was there
    [fs EXCEPT ![filepath] = yaml_dump(data)]

Paths == {"file.yaml", "configs/sim.yaml"}

NoFiles == [p \in Paths |-> Absent]

Unsaved == [t |-> "unsaved"]

NoCall ==
    [call |-> "none", path |-> "", result |-> PyNone,
     saved |-> [p \in Paths |-> Unsaved]]

---------------------------------------------------------------------------
(* The driver: main.py's loop and ui/buttons.py's handle_button_click      *)

NoQueue == [n |-> 0, calls |-> 0, base |-> 0]

QueueFrom(st, n) ==
    \* n steps asked for while paused with nothing owed
    IF st.paused /\ st.pending_ticks = 0 /\ n > 0
    THEN [n |-> n, calls |-> 0, base |-> st.tick_count]
    ELSE NoQueue

Init ==
    /\ \E s \in Starts :
          /\ state = NewSimulationState
          /\ agents = _spawn_initial_agents(s.agents)
          /\ food = _spawn_initial_food(s.food)
    /\ selected_agent = None
    /\ food_spawn_timer = 0
    /\ op = "construct"
    /\ obs = NoObs
    /\ files = NoFiles
    /\ yaml_io = NoCall
    /\ queued = NoQueue

(* The cells periodic spawning is seen to draw, out of Cells.              *)
SpawnCells == {<<0, 0>>, <<2, 1>>}

MoveDue(a) == a.tick_counter + 1 >= a.traits.move_interval_ticks

SpawnDue == ~state.paused /\ food_spawn_timer + 1 >= FOOD_SPAWN_INTERVAL_TICKS

Tick ==
    \* a draw the call does not read is not enumerated
    /\ is_running(state) => state.tick_count < MaxTicks
    /\ \E redirects \in [1 .. Len(agents) -> Redirects],
          cells \in [1 .. FOOD_SPAWN_AMOUNT -> SpawnCells] :
          /\ \A i \in 1 .. Len(agents) :
                ~(is_running(state) /\ MoveDue(agents[i])) => redirects[i] = "keep"
          /\ ~(is_running(state) /\ SpawnDue) =>
                \A k \in 1 .. FOOD_SPAWN_AMOUNT : cells[k] = <<0, 0>>
          /\ update(redirects, cells)
    /\ op' = "tick"
    /\ UNCHANGED editor
    /\ queued' = IF queued.n = 0 THEN queued
                 ELSE [queued EXCEPT !.calls = Min(@ + 1, queued.n + 2)]

StartButton ==
    /\ state' = [state EXCEPT !.paused = FALSE]
    /\ UNCHANGED <<agents, food, selected_agent, food_spawn_timer>>
    /\ op' = "clock"
    /\ UNCHANGED editor
    /\ obs' = NoObs
    /\ queued' = NoQueue

PauseButton ==
    /\ state' = [state EXCEPT !.paused = TRUE]
    /\ UNCHANGED <<agents, food, selected_agent, food_spawn_timer>>
    /\ op' = "clock"
    /\ UNCHANGED editor
    /\ obs' = NoObs
    /\ queued' = NoQueue

TogglePause ==
    /\ state' = toggle_pause(state)
    /\ UNCHANGED <<agents, food, selected_agent, food_spawn_timer>>
    /\ op' = "clock"
    /\ UNCHANGED editor
    /\ obs' = NoObs
    /\ queued' = NoQueue

StepOnce ==
    /\ step_once(state).pending_ticks <= MaxPending
    /\ state' = step_once(state)
    /\ UNCHANGED <<agents, food, selected_agent, food_spawn_timer>>
    /\ op' = "clock"
    /\ UNCHANGED editor
    /\ obs' = NoObs
    /\ queued' = IF queued.n > 0 /\ queued.calls = 0
                 THEN [queued EXCEPT !.n = @ + 1]
                 ELSE QueueFrom(state, 1)

StepMany ==
    \E n \in -1 .. MaxJump :
        /\ step_many(state, n).pending_ticks <= MaxPending
        /\ state' = step_many(state, n)
        /\ UNCHANGED <<agents, food, selected_agent, food_spawn_timer>>
        /\ op' = "clock"
        /\ UNCHANGED editor
        /\ obs' = NoObs
        /\ queued' = QueueFrom(state, n)

Reset_restocking_only ==
    /\ \E s \in Starts : /\ agents' = _spawn_initial_agents(s.agents)
                         /\ food' = _spawn_initial_food(s.food)
    /\ UNCHANGED <<state, selected_agent, food_spawn_timer>>
    /\ obs' = [NoObs EXCEPT !.selected = selected_agent, !.clock = state]
    /\ op' = "construct"
    /\ UNCHANGED editor
    /\ queued' = NoQueue

Reset ==
    \* obs keeps the clock and the selection the reset found
    /\ \E s \in Starts : Construct(s.agents, s.food)
    /\ obs' = [NoObs EXCEPT !.selected = selected_agent, !.clock = state]
    /\ op' = "construct"
    /\ UNCHANGED editor
    /\ queued' = NoQueue

SelectAgentAt ==
    /\ \E c \in Cells : /\ select_agent_at(c[1], c[2])
                        /\ obs' = [NoObs EXCEPT !.clicked = c]
    /\ op' = "select"
    /\ UNCHANGED editor
    /\ queued' = NoQueue

Next ==
    \/ Tick
    \/ StartButton
    \/ PauseButton
    \/ TogglePause
    \/ StepOnce
    \/ StepMany
    \/ Reset
    \/ SelectAgentAt

Spec == Init /\ [][Next]_vars

---------------------------------------------------------------------------
(* Properties                                                              *)

(* C1: update() called while paused with no pending step changes nothing   *)
(* of the world: clock, timer, selection, agents and food, with their      *)
(* order, are as before.                                                   *)
C1_PausedTickChangesNothing ==
    [][(op' = "tick" /\ state.paused /\ state.pending_ticks = 0)
          => UNCHANGED world]_vars

C1_Witness ==
    /\ op = "tick" /\ ~obs.ran
    /\ state.paused /\ state.pending_ticks = 0
    /\ state.tick_count > 0 /\ Len(agents) > 0 /\ Len(food) > 0

(* C2: update() runs its pipeline iff the clock is not paused or a step is *)
(* pending; a run consumes exactly one pending step if any is owed and     *)
(* leaves pending_ticks at 0 otherwise; pending_ticks is never negative.   *)
C2_TickRunsIffRunning ==
    [][/\ state.pending_ticks >= 0 /\ state'.pending_ticks >= 0
       /\ op' = "tick" =>
            LET run == ~state.paused \/ state.pending_ticks > 0
            IN /\ obs'.ran <=> run
               /\ state'.tick_count # state.tick_count <=> run
               /\ run => state'.pending_ticks =
                           IF state.pending_ticks > 0
                           THEN state.pending_ticks - 1 ELSE 0]_vars

C2_Witness ==
    op = "tick" /\ obs.ran /\ state.paused /\ state.pending_ticks = 1

(* C3: after n > 0 steps are queued from a paused clock with nothing owed, *)
(* and no other command, the first n calls of update() run (tick_count up  *)
(* by one each) and every later call is a no-op with the clock paused.     *)
C3_QueuedStepsRunExactly ==
    queued.n > 0 =>
        LET ran == Min(queued.calls, queued.n)
        IN /\ state.paused
           /\ state.tick_count = queued.base + ran
           /\ state.pending_ticks = queued.n - ran
           /\ queued.calls > 0 => (op = "tick" /\ (obs.ran <=> queued.calls <= queued.n))

C3_Witness ==
    queued.n = 2 /\ queued.calls = 3 /\ ~obs.ran /\ state.tick_count = queued.base + 2

(* C4: tick_count rises by exactly 1 in an executed tick, is unchanged by  *)
(* a call of update() that does not run and by every clock and selection   *)
(* command, and is lowered only by a reset, to 0.                          *)
C4_TickCountSteps ==
    [][/\ (op' = "tick" /\ obs'.ran) => state'.tick_count = state.tick_count + 1
       /\ (op' = "tick" /\ ~obs'.ran) => state'.tick_count = state.tick_count
       /\ op' \in {"clock", "select"} => state'.tick_count = state.tick_count
       /\ state'.tick_count < state.tick_count =>
             (op' = "construct" /\ state'.tick_count = 0)]_vars

C4_Witness ==
    op = "tick" /\ obs.ran /\ state.tick_count = 3 /\ Len(agents) > 0

(* What the last executed update() did to agent i and to the pellets.       *)

Ran == op = "tick" /\ obs.ran /\ ~obs.raised

Gain(i) == obs.fed[i].traits.energy - obs.updated[i].traits.energy

AliveAt(x, y) ==
    \* the agents alive at the eating pass on cell (x, y), by index
    {i \in 1 .. Len(obs.updated) :
        obs.updated[i].alive /\ obs.updated[i].x = x /\ obs.updated[i].y = y}

EdibleAt(x, y) ==
    \* the pellets offered to the eating pass on cell (x, y), by index
    {j \in 1 .. Len(obs.kept_food) :
        /\ obs.kept_food[j].x = x /\ obs.kept_food[j].y = y
        /\ obs.kept_food[j].energy_value > 0}

Rank(S, k) == Cardinality({m \in S : m <= k})

FoodIds == {food[j].id : j \in 1 .. Len(food)}

AgentIds(ags) == {ags[i].id : i \in 1 .. Len(ags)}

InGrid(a) == 0 <= a.x /\ a.x < GRID_COLS /\ 0 <= a.y /\ a.y < GRID_ROWS

(* C5: every agent of the active collection lies inside the grid, in every *)
(* reachable state; so does every agent while update() runs.               *)
C5_AgentsInsideGrid ==
    /\ \A i \in 1 .. Len(agents) : InGrid(agents[i])
    /\ \A i \in 1 .. Len(obs.updated) : InGrid(obs.updated[i])

C5_Witness ==
    /\ Ran
    /\ \E i \in 1 .. Len(obs.before) :
          /\ obs.before[i].x = GRID_COLS - 1 /\ obs.updated[i].x = 0
          /\ obs.before[i].id \in AgentIds(agents)

(* C6: every agent's energy is at most its max_energy, in every reachable  *)
(* state (eating past the maximum leaves the energy at the maximum).       *)
C6_EnergyAtMostMax ==
    \A i \in 1 .. Len(agents) : agents[i].traits.energy <= agents[i].traits.max_energy

(* C7: no dead agent is in the active collection when a command returns:   *)
(* an agent that died in an update() is not revived by the eating pass and *)
(* is gone when that update() returns, and no removed agent comes back     *)
(* short of a reset.                                                       *)
C7_DeadAgentsRemoved ==
    [][/\ \A i \in 1 .. Len(agents') : agents'[i].alive
       /\ (op' = "tick" /\ obs'.ran) =>
             \A i \in 1 .. Len(obs'.updated) :
                 ~obs'.updated[i].alive =>
                     /\ ~obs'.fed[i].alive
                     /\ obs'.updated[i].id \notin AgentIds(agents')
       /\ op' # "construct" => AgentIds(agents') \subseteq AgentIds(agents)]_vars

C7_Witness ==
    /\ Ran
    /\ Len(agents) > 0
    /\ \E i \in 1 .. Len(obs.before) :
          /\ obs.before[i].alive /\ ~obs.updated[i].alive
          /\ \E j \in EdibleAt(obs.updated[i].x, obs.updated[i].y) : TRUE

(* C8: in one eating pass a pellet is eaten by at most one agent: where    *)
(* alive agents share a cell with a single edible pellet the first of them *)
(* in collection order gains its value and the others gain nothing; the    *)
(* energy gained by all agents is the sum of the values of the pellets     *)
(* the pass removed.                                                       *)
C8_PelletEatenOnce ==
    Ran =>
        /\ Cardinality({i \in 1 .. Len(obs.updated) : Gain(i) # 0})
              = Cardinality(obs.eaten)
        /\ SumSeq([i \in 1 .. Len(obs.updated) |-> Gain(i)])
              = SumSeq([j \in 1 .. Len(obs.kept_food) |->
                          IF obs.kept_food[j].id \in obs.eaten
                          THEN obs.kept_food[j].energy_value ELSE 0])
        /\ \A i \in 1 .. Len(obs.updated) :
              LET A == AliveAt(obs.updated[i].x, obs.updated[i].y)
                  P == EdibleAt(obs.updated[i].x, obs.updated[i].y)
              IN (obs.updated[i].alive /\ Cardinality(P) = 1) =>
                    \A j \in P :
                        /\ obs.kept_food[j].id \in obs.eaten
                        /\ Gain(i) = IF Rank(A, i) = 1
                                     THEN obs.kept_food[j].energy_value ELSE 0

C8_Witness ==
    /\ Ran
    /\ \E i, k \in 1 .. Len(obs.updated) :
          /\ i < k
          /\ obs.updated[i].alive /\ obs.updated[k].alive
          /\ obs.updated[i].x = obs.updated[k].x /\ obs.updated[i].y = obs.updated[k].y
          /\ Cardinality(EdibleAt(obs.updated[i].x, obs.updated[i].y)) = 1
          /\ Gain(i) = FOOD_ENERGY_VALUE /\ Gain(k) = 0

(* C9: an alive agent eats at most one pellet in an update(): the r-th     *)
(* alive agent on a cell eats the r-th edible pellet on it, in collection  *)
(* order, gaining exactly that pellet's value, or nothing if there is no   *)
(* r-th pellet; a pellet no agent is left for is not removed and keeps     *)
(* its energy_value.                                                       *)
C9_OnePelletPerAgent ==
    Ran =>
        /\ \A i \in 1 .. Len(obs.updated) :
              LET A == AliveAt(obs.updated[i].x, obs.updated[i].y)
                  P == EdibleAt(obs.updated[i].x, obs.updated[i].y)
                  mine == {j \in P : Rank(P, j) = Rank(A, i)}
              IN obs.updated[i].alive =>
                    /\ mine = {} => Gain(i) = 0
                    /\ \A j \in mine : /\ Gain(i) = obs.kept_food[j].energy_value
                                       /\ obs.kept_food[j].id \in obs.eaten
        /\ \A j \in 1 .. Len(obs.kept_food) :
              LET A == AliveAt(obs.kept_food[j].x, obs.kept_food[j].y)
                  P == EdibleAt(obs.kept_food[j].x, obs.kept_food[j].y)
              IN (j \in P /\ Rank(P, j) > Cardinality(A)) =>
                    /\ obs.kept_food[j].id \notin obs.eaten
                    /\ \E m \in 1 .. Len(food) : food[m] = obs.kept_food[j]

C9_Witness ==
    /\ Ran
    /\ \E i \in 1 .. Len(obs.updated) :
          LET A == AliveAt(obs.updated[i].x, obs.updated[i].y)
              P == EdibleAt(obs.updated[i].x, obs.updated[i].y)
          IN /\ A = {i}
             /\ Cardinality(P) = 2
             /\ Gain(i) = FOOD_ENERGY_VALUE
             /\ Cardinality({j \in P : obs.kept_food[j].id \in obs.eaten}) = 1
             /\ \E j \in P : obs.kept_food[j].id \in FoodIds

(* C10: an alive agent alone on the cell of an edible pellet of value v    *)
(* at the eating pass has, when update() returns, its energy raised by v   *)
(* but to no more than max_energy; the pellet has left the food            *)
(* collection, and the agent's target is None if the pellet was its target.*)
C10_SoleAgentEats ==
    Ran =>
        \A i \in 1 .. Len(obs.updated) :
            LET A == AliveAt(obs.updated[i].x, obs.updated[i].y)
                P == EdibleAt(obs.updated[i].x, obs.updated[i].y)
            IN (A = {i} /\ P # {}) =>
                  \A j \in P :
                      Rank(P, j) = 1 =>
                          /\ obs.fed[i].traits.energy =
                                 Min(obs.updated[i].traits.energy
                                        + obs.kept_food[j].energy_value,
                                     obs.updated[i].traits.max_energy)
                          /\ obs.kept_food[j].id \notin FoodIds
                          /\ obs.updated[i].target = obs.kept_food[j].id =>
                                 obs.fed[i].target = None

(* What of C10 the program does: the same without the cap.                 *)
C10_SoleAgentEatsUncapped ==
    Ran =>
        \A i \in 1 .. Len(obs.updated) :
            LET A == AliveAt(obs.updated[i].x, obs.updated[i].y)
                P == EdibleAt(obs.updated[i].x, obs.updated[i].y)
            IN (A = {i} /\ P # {}) =>
                  \A j \in P :
                      Rank(P, j) = 1 =>
                          /\ Gain(i) = obs.kept_food[j].energy_value
                          /\ obs.kept_food[j].id \notin FoodIds
                          /\ obs.updated[i].target = obs.kept_food[j].id =>
                                 obs.fed[i].target = None

(* C11: when an executed update() returns, no pellet of the food           *)
(* collection has energy_value 0 or age >= lifespan: a pellet that was in  *)
(* the collection before is gone iff it expired or was eaten in this       *)
(* update(), and is otherwise still there, aged by exactly 1 and otherwise *)
(* as it was.                                                              *)
C11_NoSpentOrExpiredFood ==
    [][(op' = "tick" /\ obs'.ran) =>
          /\ \A j \in 1 .. Len(food') :
                food'[j].energy_value # 0 /\ food'[j].age < food'[j].lifespan
          /\ \A j \in 1 .. Len(food) :
                LET gone == \/ food[j].age + 1 >= food[j].lifespan
                            \/ food[j].id \in obs'.eaten
                    here == {m \in 1 .. Len(food') : food'[m].id = food[j].id}
                IN /\ gone <=> here = {}
                   /\ \A m \in here : food'[m] = [food[j] EXCEPT !.age = @ + 1]]_vars

C11_Witness ==
    /\ Ran
    /\ obs.eaten # {}
    /\ \E j \in 1 .. Len(obs.aged_food) :
          /\ obs.aged_food[j].age >= obs.aged_food[j].lifespan
          /\ obs.aged_food[j].id \notin FoodIds

(* C12: selected_agent is None or an alive agent of the active collection, *)
(* in every reachable state; a selected agent that dies in an update() is  *)
(* deselected when that update() returns.                                  *)
C12_SelectionAliveOrNone ==
    /\ selected_agent # None =>
          \E i \in 1 .. Len(agents) :
              agents[i].id = selected_agent /\ agents[i].alive
    /\ Ran =>
          \A i \in 1 .. Len(obs.fed) :
              (obs.fed[i].id = obs.selected /\ ~obs.fed[i].alive) =>
                  selected_agent = None

C12_Witness ==
    /\ Ran
    /\ selected_agent = None
    /\ Len(agents) > 0
    /\ \E i \in 1 .. Len(obs.fed) :
          obs.fed[i].id = obs.selected /\ ~obs.fed[i].alive

(* C13: an agent whose age is max_age - 1 when an executed update() starts *)
(* comes out of its own update dead with age max_age and with position,    *)
(* direction, energy, move counter, behaviour state and target as they     *)
(* were; it eats nothing and is not in the collection when update()        *)
(* returns.                                                                *)
C13_OldAgeDeathFirst ==
    Ran =>
        \A i \in 1 .. Len(obs.before) :
            obs.before[i].traits.age = obs.before[i].traits.max_age - 1 =>
                /\ obs.updated[i] =
                       [obs.before[i] EXCEPT !.traits.age = obs.before[i].traits.max_age,
                                             !.alive = FALSE]
                /\ obs.fed[i] = obs.updated[i]
                /\ obs.before[i].id \notin AgentIds(agents)

C13_Witness ==
    /\ Ran
    /\ \E i \in 1 .. Len(obs.before) :
          /\ obs.before[i].traits.age = obs.before[i].traits.max_age - 1
          /\ obs.before[i].alive
          /\ EdibleAt(obs.before[i].x, obs.before[i].y) # {}

Paid(i) == obs.updated[i].traits.energy < obs.before[i].traits.energy

(* C14: an agent whose move in an executed update() leaves its energy at   *)
(* 0 or below is dead after its own update, in WANDERING and in            *)
(* SEEKING_FOOD alike, and is not in the collection when update() returns. *)
C14_EnergyDeathOnMove ==
    Ran =>
        \A i \in 1 .. Len(obs.before) :
            (Paid(i) /\ obs.updated[i].traits.energy <= 0) =>
                /\ obs.updated[i].current_behavior_state \in {WANDERING, SEEKING_FOOD}
                /\ ~obs.updated[i].alive
                /\ ~obs.fed[i].alive
                /\ obs.before[i].id \notin AgentIds(agents)

DiedMovingIn(s) ==
    \E i \in 1 .. Len(obs.before) :
        /\ obs.before[i].traits.energy = obs.before[i].traits.energy_drain_per_move
        /\ Paid(i) /\ obs.updated[i].traits.energy = 0
        /\ obs.updated[i].current_behavior_state = s
        /\ ~obs.updated[i].alive

C14_Witness == Ran /\ DiedMovingIn(WANDERING) /\ DiedMovingIn(SEEKING_FOOD)

Survivors(o) == Len(o.kept_food) - Cardinality(o.eaten)

(* C15: 0 <= food_spawn_timer < FOOD_SPAWN_INTERVAL_TICKS in every state.  *)
(* An executed update() of a clock that is not paused raises the timer by  *)
(* 1, or, when that reaches the interval, sets it to 0 and appends exactly *)
(* FOOD_SPAWN_AMOUNT pellets of age 0 with the configured lifespan and     *)
(* energy value; no other update() adds a pellet.                          *)
C15_TimedFoodSpawn ==
    [][/\ 0 <= food_spawn_timer' /\ food_spawn_timer' < FOOD_SPAWN_INTERVAL_TICKS
       /\ (op' = "tick" /\ obs'.ran) =>
             LET due == ~state.paused
                        /\ food_spawn_timer + 1 = FOOD_SPAWN_INTERVAL_TICKS
                 added == Len(food') - Survivors(obs')
             IN /\ added = IF due THEN FOOD_SPAWN_AMOUNT ELSE 0
                /\ food_spawn_timer' = IF state.paused THEN food_spawn_timer
                                       ELSE IF due THEN 0
                                       ELSE food_spawn_timer + 1
                /\ \A j \in 1 .. Len(food') :
                      IF j <= Survivors(obs')
                      THEN food'[j].id \in {food[m].id : m \in 1 .. Len(food)}
                      ELSE /\ food'[j].id \notin {food[m].id : m \in 1 .. Len(food)}
                           /\ food'[j].age = 0
                           /\ food'[j].lifespan = FOOD_LIFESPAN_TICKS
                           /\ food'[j].energy_value = FOOD_ENERGY_VALUE
                           /\ <<food'[j].x, food'[j].y>> \in Cells]_vars

C15_Witness ==
    /\ Ran
    /\ ~state.paused
    /\ food_spawn_timer = 0
    /\ obs.spawned = FOOD_SPAWN_AMOUNT
    /\ Survivors(obs) > 0
    /\ Len(food) = Survivors(obs) + FOOD_SPAWN_AMOUNT
    /\ food[Len(food)].age = 0

(* C16: select_agent_at(col, row) leaves selected_agent at the last agent, *)
(* in collection order, that is alive and exactly on (col, row), and at    *)
(* None when there is none, whatever was selected before; clock, agents,   *)
(* food and spawn timer are unchanged.                                     *)
C16_SelectLastAliveAtCell ==
    [][op' = "select" =>
          LET col == obs'.clicked[1]
              row == obs'.clicked[2]
              at == {i \in 1 .. Len(agents) :
                        agents[i].alive /\ agents[i].x = col /\ agents[i].y = row}
          IN /\ UNCHANGED <<state, agents, food, food_spawn_timer>>
             /\ at = {} => selected_agent' = None
             /\ \A i \in at :
                   (\A k \in at : k <= i) => selected_agent' = agents[i].id]_vars

C16_Witness ==
    /\ op = "select"
    /\ selected_agent = 2
    /\ Len(agents) = 2
    /\ agents[1].x = agents[2].x /\ agents[1].y = agents[2].y
    /\ obs.clicked = <<agents[1].x, agents[1].y>>

---------------------------------------------------------------------------
(* move_agent on its own: one agent on any cell, facing any direction,     *)
(* with or without a target, moved again and again.                        *)

MoveInit ==
    /\ state = NewSimulationState
    /\ \E c \in Cells, d \in DIRECTIONS, t \in {None, 1} :
          agents = <<[NewAgent(1, c[1], c[2], d, 0) EXCEPT !.target = t]>>
    /\ food = <<>>
    /\ selected_agent = None
    /\ food_spawn_timer = 0
    /\ op = "construct"
    /\ obs = NoObs
    /\ files = NoFiles
    /\ yaml_io = NoCall
    /\ queued = NoQueue

MoveStep ==
    /\ \E redirect \in Redirects : agents' = <<move_agent(agents[1], redirect)>>
    /\ obs' = [NoObs EXCEPT !.before = agents]
    /\ op' = "move"
    /\ UNCHANGED editor
    /\ UNCHANGED <<state, food, selected_agent, food_spawn_timer, queued>>

MoveNext == MoveStep

MoveSpec == MoveInit /\ [][MoveNext]_vars

(* C17: one move from (x, y) facing a direction with delta (dx, dy) ends   *)
(* on x' = (x + dx) mod cols and on y' = y + dy when that is a row of the  *)
(* grid, else on y' = y: the grid wraps east-west and clamps north-south.  *)
C17_MoveWrapsAndClamps ==
    op = "move" =>
        LET b == obs.before[1]
            a == agents[1]
            dx == IF b.direction = "E" THEN 1 ELSE IF b.direction = "W" THEN -1 ELSE 0
            dy == IF b.direction = "S" THEN 1 ELSE IF b.direction = "N" THEN -1 ELSE 0
        IN /\ a.x = (b.x + dx) % GRID_COLS
           /\ a.y = IF 0 <= b.y + dy /\ b.y + dy < GRID_ROWS THEN b.y + dy ELSE b.y
           /\ (b.x = GRID_COLS - 1 /\ b.direction = "E") => a.x = 0
           /\ (b.x = 0 /\ b.direction = "W") => a.x = GRID_COLS - 1
           /\ (b.y = 0 /\ b.direction = "N") => (a.y = 0 /\ a.x = b.x)
           /\ (b.y = GRID_ROWS - 1 /\ b.direction = "S") => (a.y = b.y /\ a.x = b.x)

C17_Witness ==
    /\ op = "move"
    /\ obs.before[1].x = 0 /\ obs.before[1].y = 0 /\ obs.before[1].direction = "W"
    /\ agents[1].x = GRID_COLS - 1 /\ agents[1].y = 0
    /\ agents[1].direction = "S"

---------------------------------------------------------------------------
(* find_nearest_food on its own: an agent on any cell with a vision range  *)
(* of 1 or 2, and any list of up to MaxFood pellets, edible or spent.      *)

MaxFood == 2

PelletValues == {-1, 0, FOOD_ENERGY_VALUE}

VisionRanges == {1, 2}

FoodLists ==
    UNION {[1 .. n -> Cells \X PelletValues] : n \in 0 .. MaxFood}

FindInit ==
    /\ state = NewSimulationState
    /\ \E c \in Cells, v \in VisionRanges :
          agents = <<[NewAgent(1, c[1], c[2], "N", 1) EXCEPT !.traits.vision_range = v]>>
    /\ \E l \in FoodLists :
          food = [j \in 1 .. Len(l) |->
                     FoodPellet(j, l[j][1][1], l[j][1][2], FOOD_LIFESPAN_TICKS, l[j][2])]
    /\ selected_agent = None
    /\ food_spawn_timer = 0
    /\ op = "construct"
    /\ obs = NoObs
    /\ files = NoFiles
    /\ yaml_io = NoCall
    /\ queued = NoQueue

FindStep ==
    /\ op = "construct"
    /\ obs' = [NoObs EXCEPT !.found = find_nearest_food(agents[1], food)]
    /\ op' = "find"
    /\ UNCHANGED editor
    /\ UNCHANGED <<world, queued>>

FindNext == FindStep

FindSpec == FindInit /\ [][FindNext]_vars

ShortWay(ax, px) == Min(Abs(px - ax), GRID_COLS - Abs(px - ax))

Seen(a, p) ==
    ShortWay(a.x, p.x) * ShortWay(a.x, p.x) + (p.y - a.y) * (p.y - a.y)

(* C18: find_nearest_food returns None iff no pellet with energy_value > 0 *)
(* lies within squared distance vision_range^2 (inclusive) of the agent,   *)
(* the horizontal distance taken the short way round the grid; otherwise   *)
(* it returns the pellet at the least such distance, the earliest in the   *)
(* list among equals; it never returns a pellet with energy_value <= 0.    *)
C18_NearestVisibleFood ==
    op = "find" =>
        LET a == agents[1]
            inView == {j \in 1 .. Len(food) :
                          /\ food[j].energy_value > 0
                          /\ Seen(a, food[j]) <= a.traits.vision_range * a.traits.vision_range}
        IN /\ obs.found = None <=> inView = {}
           /\ \A j \in inView :
                 (\A k \in inView :
                     \/ Seen(a, food[j]) < Seen(a, food[k])
                     \/ (Seen(a, food[j]) = Seen(a, food[k]) /\ j <= k))
                 => obs.found = food[j].id
           /\ \A j \in 1 .. Len(food) :
                 food[j].energy_value <= 0 => obs.found # food[j].id

C18_Witness ==
    /\ op = "find"
    /\ Len(food) = 2
    /\ agents[1].traits.vision_range = 1
    /\ agents[1].x = 0 /\ food[1].x = GRID_COLS - 1 /\ food[2].x = 1
    /\ food[1].y = agents[1].y /\ food[2].y = agents[1].y
    /\ food[1].energy_value > 0 /\ food[2].energy_value > 0
    /\ obs.found = food[1].id

---------------------------------------------------------------------------
(* NeuralNetwork.forward on its own and in the running world: besides the  *)
(* calls update() makes, the network of any agent is handed any vector of  *)
(* up to MaxLen entries.                                                   *)

MaxLen == 3

Vectors == UNION {[1 .. n -> {0, 10}] : n \in 0 .. MaxLen}

ForwardStep ==
    /\ \E i \in 1 .. Len(agents), v \in Vectors :
          obs' = [NoObs EXCEPT !.input = v,
                               !.raised = forward(agents[i].network, v).raised,
                               !.selected = agents[i].id]
    /\ op' = "forward"
    /\ UNCHANGED editor
    /\ UNCHANGED <<world, queued>>

ForwardNext == ForwardStep \/ Tick

ForwardSpec == Init /\ [][ForwardNext]_vars

---------------------------------------------------------------------------
(* yaml_io on its own: the editor saves any value of Datas to any path and *)
(* loads any path, in any order, starting from files absent or empty.      *)

MaxItems == 1

Scalars ==
    {PyNone, PyBool("true"), PyInt("7"), PyStr("7"), PyStr("abc"), PyStr("")}

Items == Scalars \cup {PyTuple(<<PyInt("7")>>)}

Datas ==
    Scalars
      \cup {PyList(l) : l \in UNION {[1 .. n -> Items] : n \in 0 .. MaxItems}}
      \cup {PyTuple(l) : l \in UNION {[1 .. n -> Scalars] : n \in 0 .. MaxItems}}
      \cup {PyDict(l) :
              l \in UNION {[1 .. n -> [k : {PyStr("key"), PyInt("7")}, v : Items]] :
                             n \in 0 .. MaxItems}}

YamlInit ==
    /\ state = NewSimulationState
    /\ agents = <<>>
    /\ food = <<>>
    /\ selected_agent = None
    /\ food_spawn_timer = 0
    /\ op = "construct"
    /\ obs = NoObs
    /\ queued = NoQueue
    /\ files \in [Paths -> {Absent, EmptyDocument}]
    /\ yaml_io = NoCall

SaveYaml ==
    /\ \E data \in Datas, filepath \in Paths :
          /\ files' = save_yaml_file(files, data, filepath)
          /\ yaml_io' = [call |-> "save", path |-> filepath, result |-> PyNone,
                         saved |-> [yaml_io.saved EXCEPT ![filepath] = data]]
    /\ UNCHANGED <<world, op, obs, queued>>

LoadYaml ==
    /\ \E filepath \in Paths :
          yaml_io' = [yaml_io EXCEPT !.call = "load", !.path = filepath,
                                     !.result = load_yaml_file(files, filepath)]
    /\ UNCHANGED <<world, op, obs, queued, files>>

YamlNext == SaveYaml \/ LoadYaml

YamlSpec == YamlInit /\ [][YamlNext]_vars

HasTuple(v) ==
    \/ v.t = "tuple"
    \/ v.t = "list" /\ \E i \in 1 .. Len(v.items) : v.items[i].t = "tuple"
    \/ v.t = "dict" /\ \E i \in 1 .. Len(v.items) :
                          v.items[i].k.t = "tuple" \/ v.items[i].v.t = "tuple"

(* C21: load_yaml_file on a path returns the value last saved to it by     *)
(* save_yaml_file, whatever the file held before that save, and raises     *)
(* FileNotFoundError on a path that does not exist.                        *)
C21_SaveLoadRoundTrip ==
    yaml_io.call = "load" =>
        /\ yaml_io.saved[yaml_io.path] # Unsaved =>
              yaml_io.result = yaml_io.saved[yaml_io.path]
        /\ files[yaml_io.path] = Absent =>
              yaml_io.result = Raised("FileNotFoundError")

(* What of C21 the program does: the same for the values that hold no      *)
(* tuple.                                                                  *)
C21_SafeDataRoundTrip ==
    yaml_io.call = "load" =>
        /\ (yaml_io.saved[yaml_io.path] # Unsaved
               /\ ~HasTuple(yaml_io.saved[yaml_io.path])) =>
              yaml_io.result = yaml_io.saved[yaml_io.path]
        /\ files[yaml_io.path] = Absent =>
              yaml_io.result = Raised("FileNotFoundError")

C21_SafeWitness ==
    /\ yaml_io.call = "load"
    /\ yaml_io.saved[yaml_io.path] = PyDict(<<[k |-> PyStr("key"), v |-> PyStr("7")]>>)
    /\ yaml_io.result = yaml_io.saved[yaml_io.path]
    /\ \E p \in Paths : p # yaml_io.path /\ files[p] = Absent

---------------------------------------------------------------------------
(* The horizontal adjustment on its own: every grid width up to MaxCols    *)
(* and every pair of columns of that width.                                *)

MaxCols == 6

WrapInit ==
    /\ state = NewSimulationState
    /\ agents = <<>>
    /\ food = <<>>
    /\ selected_agent = None
    /\ food_spawn_timer = 0
    /\ op = "construct"
    /\ \E cols \in 1 .. MaxCols :
          \E ax \in 0 .. cols - 1, bx \in 0 .. cols - 1 :
              obs = [NoObs EXCEPT !.input = <<cols, ax, bx>>]
    /\ queued = NoQueue
    /\ files = NoFiles
    /\ yaml_io = NoCall

WrapStep ==
    /\ op = "construct"
    /\ obs' = [obs EXCEPT !.output = WrapDx(obs.input[3] - obs.input[2], obs.input[1])]
    /\ op' = "wrap"
    /\ UNCHANGED <<world, queued, editor>>

WrapNext == WrapStep

WrapSpec == WrapInit /\ [][WrapNext]_vars

wrap_delta(dx, cols) ==
    \* the reference: dx > cols/2 and dx < -cols/2 over the rationals
    IF 2 * dx > cols THEN dx - cols
    ELSE IF 2 * dx < -cols THEN dx + cols
    ELSE dx

(* C22: for every grid width and every two columns ax, bx of it, the       *)
(* adjustment of dx = bx - ax is wrap_delta(dx, cols), and its absolute    *)
(* value is at most cols / 2.                                              *)
C22_WrapDeltaAnyWidth ==
    op = "wrap" =>
        /\ obs.output = wrap_delta(obs.input[3] - obs.input[2], obs.input[1])
        /\ 2 * Abs(obs.output) <= obs.input[1]

(* What of C22 the program does: the same for the even widths.             *)
C22_WrapDeltaEvenWidth ==
    (op = "wrap" /\ obs.input[1] % 2 = 0) =>
        /\ obs.output = wrap_delta(obs.input[3] - obs.input[2], obs.input[1])
        /\ 2 * Abs(obs.output) <= obs.input[1]

---------------------------------------------------------------------------
(* The behaviour state machine, seen across one executed update().         *)

Transitioned(i) ==
    \* agent i reached the transition phase: alive, and not dead of old age
    obs.before[i].alive /\ obs.before[i].traits.age + 1 < obs.before[i].traits.max_age

Decision(i) ==
    forward(obs.before[i].network, get_observation(obs.before[i], obs.aged_food)).out

InSight(i) ==
    \* the edible pellets within the vision range of agent i, by index
    {j \in 1 .. Len(obs.aged_food) :
        /\ obs.aged_food[j].energy_value > 0
        /\ Seen(obs.before[i], obs.aged_food[j])
              <= obs.before[i].traits.vision_range * obs.before[i].traits.vision_range}

TransitionOf(i) ==
    \* agent i as the transition phase of the last update() left it
    LET r == get_next_state(AgeAgent(obs.before[i]), obs.aged_food)
    IN [r.agent EXCEPT !.current_behavior_state = r.next_state]

(* C24: on a tick whose decision keeps an agent in SEEKING_FOOD, the       *)
(* transition phase leaves its target exactly as it was; the target is     *)
(* assigned only on the tick the agent enters SEEKING_FOOD.                *)
C24_TargetOnlyOnEntering ==
    Ran =>
        \A i \in 1 .. Len(obs.before) :
            (/\ Transitioned(i)
             /\ obs.before[i].current_behavior_state = SEEKING_FOOD
             /\ TransitionOf(i).current_behavior_state = SEEKING_FOOD)
            => TransitionOf(i).target = obs.before[i].target

(* What of C24 the program does: in SEEKING_FOOD after the transition      *)
(* phase, the target is the nearest visible pellet of that moment.         *)
C24_TargetIsNearestWhenSeeking ==
    Ran =>
        \A i \in 1 .. Len(obs.before) :
            (Transitioned(i) /\ TransitionOf(i).current_behavior_state = SEEKING_FOOD)
            => /\ TransitionOf(i).target \in {obs.aged_food[j].id : j \in InSight(i)}
               /\ \A j \in InSight(i) :
                     Seen(obs.before[i], PelletById(obs.aged_food, TransitionOf(i).target))
                        <= Seen(obs.before[i], obs.aged_food[j])

---------------------------------------------------------------------------
(* The execution phase on its own: one agent in either behaviour state,    *)
(* at every cell, facing and move counter, holding no target, the pellet   *)
(* of the list (edible, depleted or negative) or a pellet that has left    *)
(* the list.                                                               *)

Targets == {None, 1, 2}

Energies == {1, INITIAL_ENERGY}

ExecInit ==
    /\ state = NewSimulationState
    /\ \E c \in Cells, d \in DIRECTIONS, s \in {WANDERING, SEEKING_FOOD},
          t \in Targets, n \in 0 .. BASE_MOVE_INTERVAL_TICKS - 1, e \in Energies :
          /\ s = WANDERING => t = None
          /\ agents = <<[NewAgent(1, c[1], c[2], d, 1) EXCEPT
                            !.current_behavior_state = s, !.target = t,
                            !.tick_counter = n, !.traits.energy = e]>>
    /\ \E l \in {m \in FoodLists : Len(m) <= 1} :
          food = [j \in 1 .. Len(l) |->
                     FoodPellet(j, l[j][1][1], l[j][1][2], FOOD_LIFESPAN_TICKS, l[j][2])]
    /\ selected_agent = None
    /\ food_spawn_timer = 0
    /\ op = "construct"
    /\ obs = NoObs
    /\ queued = NoQueue
    /\ files = NoFiles
    /\ yaml_io = NoCall

ExecStep ==
    /\ op = "construct"
    /\ \E redirect \in Redirects :
          agents' = <<execute_current_state(agents[1], food, redirect)>>
    /\ obs' = [NoObs EXCEPT !.before = agents]
    /\ op' = "execute"
    /\ UNCHANGED <<state, food, selected_agent, food_spawn_timer, queued, editor>>

ExecNext == ExecStep

ExecSpec == ExecInit /\ [][ExecNext]_vars

Stale(a) ==
    \* the target of a is none, depleted, or no longer in the food list
    \/ a.target = None
    \/ \A j \in 1 .. Len(food) : food[j].id = a.target => food[j].energy_value <= 0

(* C25: in the SEEKING_FOOD execution phase an agent whose target is none, *)
(* has energy_value <= 0 or is no longer in the food list does nothing:    *)
(* position, direction, energy, alive flag and move counter are unchanged. *)
C25_StaleTargetDoesNothing ==
    (/\ op = "execute"
     /\ obs.before[1].current_behavior_state = SEEKING_FOOD
     /\ Stale(obs.before[1]))
    => /\ agents[1].x = obs.before[1].x
       /\ agents[1].y = obs.before[1].y
       /\ agents[1].direction = obs.before[1].direction
       /\ agents[1].traits = obs.before[1].traits
       /\ agents[1].alive = obs.before[1].alive
       /\ agents[1].tick_counter = obs.before[1].tick_counter
       /\ agents[1].current_behavior_state = SEEKING_FOOD

C25_Witness ==
    /\ op = "execute"
    /\ obs.before[1].current_behavior_state = SEEKING_FOOD
    /\ obs.before[1].target = 1
    /\ obs.before[1].tick_counter = BASE_MOVE_INTERVAL_TICKS - 1
    /\ Len(food) = 1
    /\ food[1].energy_value = 0
    /\ <<food[1].x, food[1].y>> = <<1, 0>>
    /\ <<obs.before[1].x, obs.before[1].y>> = <<0, 0>>
    /\ <<agents[1].x, agents[1].y>> = <<0, 0>>
    /\ agents[1].tick_counter = BASE_MOVE_INTERVAL_TICKS - 1
    /\ agents[1].target = None

---------------------------------------------------------------------------
(* One due move of a SEEKING_FOOD agent toward a valid target, on grids of *)
(* every width in SeekWidths and SeekRows rows.                            *)

SeekWidths == {3, 4, 5}

SeekRows == 3

SeekInit ==
    /\ state = NewSimulationState
    /\ \E cols \in SeekWidths :
          /\ obs = [NoObs EXCEPT !.input = <<cols, SeekRows>>]
          /\ \E ax \in 0 .. cols - 1, ay \in 0 .. SeekRows - 1 :
                agents = <<[NewAgent(1, ax, ay, "N", 1) EXCEPT
                               !.current_behavior_state = SEEKING_FOOD,
                               !.target = 1,
                               !.tick_counter = BASE_MOVE_INTERVAL_TICKS - 1]>>
          /\ \E tx \in 0 .. cols - 1, ty \in 0 .. SeekRows - 1 :
                food = <<FoodPellet(1, tx, ty, FOOD_LIFESPAN_TICKS, FOOD_ENERGY_VALUE)>>
    /\ selected_agent = None
    /\ food_spawn_timer = 0
    /\ op = "construct"
    /\ queued = NoQueue
    /\ files = NoFiles
    /\ yaml_io = NoCall

SeekStep ==
    \* the due move of the SEEKING_FOOD branch: turn, move, pay
    /\ op = "construct"
    /\ LET a == [agents[1] EXCEPT !.tick_counter = 0]
           t == PelletById(food, a.target)
           turned == [a EXCEPT !.direction =
                         move_towards_target_on(a, t.x, t.y, obs.input[1])]
           moved == PayMove(move_agent_on(turned, "keep", obs.input[1], obs.input[2]))
       IN agents' = <<IF moved.alive /\ moved.x = t.x /\ moved.y = t.y
                      THEN [moved EXCEPT !.target = None] ELSE moved>>
    /\ obs' = [obs EXCEPT !.before = agents]
    /\ op' = "seek"
    /\ UNCHANGED <<state, food, selected_agent, food_spawn_timer, queued, editor>>

SeekNext == SeekStep

SeekSpec == SeekInit /\ [][SeekNext]_vars

TorusDist(a, p, cols) == Abs(wrap_delta(p.x - a.x, cols)) + Abs(p.y - a.y)

Towards(a, p, cols) ==
    \* E/W by the sign of the wrap-aware dx when dx # 0 and |dx| >= |dy|,
    \* otherwise S/N by the sign of dy
    LET dx == wrap_delta(p.x - a.x, cols)
        dy == p.y - a.y
    IN IF dx # 0 /\ Abs(dx) >= Abs(dy) THEN (IF dx > 0 THEN "E" ELSE "W")
       ELSE IF dy > 0 THEN "S" ELSE "N"

(* C26: a move of a SEEKING_FOOD agent toward a valid target not on its    *)
(* own cell goes E/W by the sign of the wrap-aware dx when dx # 0 and      *)
(* |dx| >= |dy|, otherwise S/N by the sign of dy, and leaves the wrap-     *)
(* aware Manhattan distance to the target exactly 1 smaller, on every      *)
(* grid width.                                                             *)
C26_SeekingMoveOneCloser ==
    (op = "seek" /\ TorusDist(obs.before[1], food[1], obs.input[1]) > 0)
    => /\ agents[1].direction = Towards(obs.before[1], food[1], obs.input[1])
       /\ TorusDist(agents[1], food[1], obs.input[1])
             = TorusDist(obs.before[1], food[1], obs.input[1]) - 1

(* What of C26 the program does: the same on the even widths.              *)
C26_SeekingMoveOneCloserEvenWidth ==
    (/\ op = "seek"
     /\ obs.input[1] % 2 = 0
     /\ TorusDist(obs.before[1], food[1], obs.input[1]) > 0)
    => /\ agents[1].direction = Towards(obs.before[1], food[1], obs.input[1])
       /\ TorusDist(agents[1], food[1], obs.input[1])
             = TorusDist(obs.before[1], food[1], obs.input[1]) - 1

---------------------------------------------------------------------------
(* The move counter and the size of a step, across one executed update().  *)

CounterInRange(a) ==
    0 <= a.tick_counter /\ a.tick_counter < a.traits.move_interval_ticks

OneCellAtMost(a, b) ==
    \* b is on the cell of a or on one of its four neighbours, columns wrapping
    \/ (b.x = a.x /\ b.y = a.y)
    \/ (b.y = a.y /\ (b.x = (a.x + 1) % GRID_COLS \/ a.x = (b.x + 1) % GRID_COLS))
    \/ (b.x = a.x /\ (b.y = a.y + 1 \/ b.y = a.y - 1))

---------------------------------------------------------------------------
(* C28: in any tick in which an agent's energy decreases, its position     *)
(* after the update differs from its position before; a move blocked by    *)
(* the vertical clamp costs no energy.                                     *)
C28_EnergyPaidOnlyForNewCell ==
    Ran =>
        \A i \in 1 .. Len(obs.before) :
            Paid(i) => <<obs.updated[i].x, obs.updated[i].y>>
                          # <<obs.before[i].x, obs.before[i].y>>

(* What of C28 the program does: energy decreases only on the tick the     *)
(* move counter reaches the interval, by energy_drain_per_move, whether    *)
(* or not the clamp held the agent on its cell.                            *)
C28_EnergyPaidPerMoveAttempt ==
    Ran =>
        \A i \in 1 .. Len(obs.before) :
            /\ Paid(i) =>
                  /\ obs.before[i].tick_counter + 1
                        = obs.before[i].traits.move_interval_ticks
                  /\ obs.updated[i].traits.energy
                        = obs.before[i].traits.energy
                             - obs.before[i].traits.energy_drain_per_move
            /\ (/\ Transitioned(i)
                /\ obs.before[i].tick_counter + 1
                      = obs.before[i].traits.move_interval_ticks)
               => Paid(i)

---------------------------------------------------------------------------
(* The order of the phases of one executed update().                       *)

ExpiredNow ==
    \* the pellets whose age reached their lifespan in the last update(), by index
    {j \in 1 .. Len(obs.aged_food) : obs.aged_food[j].age >= obs.aged_food[j].lifespan}

SpawnedNow ==
    \* the pellets the last update() spawned, by index in food
    {m \in 1 .. Len(food) :
        \A j \in 1 .. Len(obs.aged_food) : obs.aged_food[j].id # food[m].id}

(* C29: within one executed tick the agents are updated, then food is aged *)
(* and the expired pellets removed, then the eating pass runs, then the    *)
(* periodic spawn, then the dead agents are removed; so a pellet whose     *)
(* age reaches its lifespan in a tick feeds no agent in that tick, and a   *)
(* pellet spawned in a tick is not eaten in that tick.                     *)
C29_PhaseOrder ==
    Ran =>
        \* expiry before eating: the eating pass is offered no expired pellet
        /\ \A j \in 1 .. Len(obs.kept_food) :
              obs.kept_food[j].age < obs.kept_food[j].lifespan
        /\ \A j \in ExpiredNow :
              /\ obs.aged_food[j].id \notin obs.eaten
              /\ obs.aged_food[j].id \notin FoodIds
        /\ \A i \in 1 .. Len(obs.updated) :
              \* the agents are where their own update put them, and are fed
              \* only by a pellet that did not expire
              /\ <<obs.fed[i].x, obs.fed[i].y>> = <<obs.updated[i].x, obs.updated[i].y>>
              /\ Gain(i) > 0 =>
                    \E j \in 1 .. Len(obs.aged_food) :
                        /\ j \notin ExpiredNow
                        /\ obs.aged_food[j].id \in obs.eaten
                        /\ obs.aged_food[j].x = obs.updated[i].x
                        /\ obs.aged_food[j].y = obs.updated[i].y
                        /\ obs.aged_food[j].energy_value = Gain(i)
        \* spawn after eating: the new pellets are whole and uneaten
        /\ Cardinality(SpawnedNow) = obs.spawned
        /\ \A m \in SpawnedNow :
              /\ food[m].energy_value = FOOD_ENERGY_VALUE
              /\ food[m].age = 0
              /\ food[m].id \notin obs.eaten
        \* death cleanup last: the dead took their place in the passes before
        /\ Len(obs.fed) = Len(obs.before)
        /\ \A i \in 1 .. Len(agents) : agents[i].alive
        /\ AgentIds(agents) = {obs.fed[i].id : i \in {k \in 1 .. Len(obs.fed) : obs.fed[k].alive}}

C29_Witness ==
    /\ Ran
    /\ \E j \in ExpiredNow, i \in 1 .. Len(obs.updated) :
          /\ obs.updated[i].alive
          /\ obs.updated[i].x = obs.aged_food[j].x
          /\ obs.updated[i].y = obs.aged_food[j].y
          /\ obs.aged_food[j].energy_value > 0
          /\ Gain(i) = 0
    /\ \E m \in SpawnedNow, i \in 1 .. Len(obs.updated) :
          /\ obs.fed[i].alive
          /\ obs.fed[i].x = food[m].x
          /\ obs.fed[i].y = food[m].y

---------------------------------------------------------------------------
DiedInUpdate(i) == obs.before[i].alive /\ ~obs.updated[i].alive

(* C30: an agent that died during the update phase of a tick, of old age   *)
(* or of energy <= 0 after a move, takes no part in that tick's eating     *)
(* pass: its energy is not increased, an edible pellet on its cell keeps   *)
(* its energy_value and stays in the collection unless an alive agent      *)
(* eats it, and the agent is removed at the end of the tick.               *)
C30_DeadAgentDoesNotEat ==
    Ran =>
        \A i \in 1 .. Len(obs.before) :
            DiedInUpdate(i) =>
                /\ obs.fed[i] = obs.updated[i]
                /\ obs.before[i].id \notin AgentIds(agents)
                /\ AliveAt(obs.updated[i].x, obs.updated[i].y) = {} =>
                      \A j \in EdibleAt(obs.updated[i].x, obs.updated[i].y) :
                          /\ obs.kept_food[j].id \notin obs.eaten
                          /\ \E m \in 1 .. Len(food) : food[m] = obs.kept_food[j]

C30_Witness ==
    /\ Ran
    /\ \E i \in 1 .. Len(obs.before) :
          /\ DiedInUpdate(i)
          /\ obs.updated[i].traits.energy <= 0
          /\ <<obs.updated[i].x, obs.updated[i].y>> # <<obs.before[i].x, obs.before[i].y>>
          /\ AliveAt(obs.updated[i].x, obs.updated[i].y) = {}
          /\ \E j \in EdibleAt(obs.updated[i].x, obs.updated[i].y) :
                \E m \in 1 .. Len(food) : food[m] = obs.kept_food[j]

---------------------------------------------------------------------------
EdibleIn(o, i) ==
    \* the pellets offered to the eating pass of o on the cell of agent i
    {j \in 1 .. Len(o.kept_food) :
        /\ o.kept_food[j].x = o.updated[i].x /\ o.kept_food[j].y = o.updated[i].y
        /\ o.kept_food[j].energy_value > 0}

(* C31: a tick that executes only because a step was queued while the      *)
(* clock is paused leaves food_spawn_timer unchanged and adds no pellet,   *)
(* while agents and food still age and movement, eating and death cleanup  *)
(* still run; the spawn timer changes only in ticks executed with          *)
(* paused = FALSE (and on construction).                                   *)
C31_SteppedTickDoesNotSpawn ==
    [][/\ (op' = "tick" /\ obs'.ran /\ ~obs'.raised /\ state.paused) =>
             /\ state.pending_ticks > 0
             /\ food_spawn_timer' = food_spawn_timer
             /\ obs'.spawned = 0
             /\ \A m \in 1 .. Len(food') :
                   \E j \in 1 .. Len(food) : food'[m] = [food[j] EXCEPT !.age = @ + 1]
             /\ \A j \in 1 .. Len(food) :
                   obs'.aged_food[j] = [food[j] EXCEPT !.age = @ + 1]
             /\ \A i \in 1 .. Len(agents) :
                   /\ obs'.updated[i].traits.age = agents[i].traits.age + 1
                   /\ MoveDue(agents[i]) /\ obs'.updated[i].traits.age
                                               < agents[i].traits.max_age
                         => obs'.updated[i].tick_counter = 0
                   /\ (obs'.updated[i].alive /\ EdibleIn(obs', i) # {}) =>
                         \E j \in EdibleIn(obs', i) : obs'.kept_food[j].id \in obs'.eaten
             /\ \A i \in 1 .. Len(agents') : agents'[i].alive
             /\ AgentIds(agents') =
                   {obs'.fed[i].id : i \in {k \in 1 .. Len(obs'.fed) : obs'.fed[k].alive}}
       /\ food_spawn_timer' # food_spawn_timer =>
             \/ (op' = "tick" /\ obs'.ran /\ ~state.paused)
             \/ op' = "construct"]_vars

C31_Witness ==
    /\ Ran
    /\ state.paused
    /\ obs.spawned = 0
    /\ food_spawn_timer = FOOD_SPAWN_INTERVAL_TICKS - 1
    /\ obs.eaten # {}
    /\ \E i \in 1 .. Len(obs.before) :
          /\ obs.updated[i].x # obs.before[i].x
          /\ ~obs.updated[i].alive
    /\ \A j \in 1 .. Len(obs.aged_food) : obs.aged_food[j].age > 1

---------------------------------------------------------------------------
(* The two step commands on their own, from every clock state within the   *)
(* bounds.                                                                 *)

ClockStates ==
    [tick_count : 0 .. MaxTicks, paused : BOOLEAN, pending_ticks : 0 .. MaxPending]

ClockInit ==
    /\ state \in ClockStates
    /\ agents = <<>>
    /\ food = <<>>
    /\ selected_agent = None
    /\ food_spawn_timer = 0
    /\ op = "construct"
    /\ obs = NoObs
    /\ queued = NoQueue
    /\ files = NoFiles
    /\ yaml_io = NoCall

QueueSingleStep ==
    /\ op = "construct"
    /\ state' = step_once(state)
    /\ obs' = [NoObs EXCEPT !.clock = state, !.input = <<"step_once", 1>>]
    /\ op' = "step"
    /\ UNCHANGED <<agents, food, selected_agent, food_spawn_timer, queued, editor>>

QueueSteps ==
    /\ op = "construct"
    /\ \E n \in -1 .. MaxJump :
          /\ state' = step_many(state, n)
          /\ obs' = [NoObs EXCEPT !.clock = state, !.input = <<"step_many", n>>]
    /\ op' = "step"
    /\ UNCHANGED <<agents, food, selected_agent, food_spawn_timer, queued, editor>>

ClockNext == QueueSingleStep \/ QueueSteps

ClockSpec == ClockInit /\ [][ClockNext]_vars

(* C32: step_once() and step_many(n) issued while not paused leave         *)
(* pending_ticks, paused and tick_count unchanged; step_many(n) with       *)
(* n <= 0 changes nothing in any state; issued while paused they add       *)
(* exactly 1, respectively n, to pending_ticks and change nothing else.    *)
C32_StepsQueueOnlyWhilePaused ==
    op = "step" =>
        LET n == obs.input[2]
        IN /\ (~obs.clock.paused \/ n <= 0) => state = obs.clock
           /\ (obs.clock.paused /\ n > 0) =>
                 /\ state.pending_ticks = obs.clock.pending_ticks + n
                 /\ state.paused = obs.clock.paused
                 /\ state.tick_count = obs.clock.tick_count
           /\ obs.input[1] = "step_once" => n = 1

C32_Witness ==
    /\ op = "step"
    /\ obs.input = <<"step_many", MaxJump>>
    /\ obs.clock.paused
    /\ obs.clock.pending_ticks = 1
    /\ state.pending_ticks = 1 + MaxJump
    /\ state.tick_count = obs.clock.tick_count
    /\ state.tick_count > 0

---------------------------------------------------------------------------
(* C33: whenever the clock goes from running to paused, the pending steps  *)
(* are cleared: pending_ticks = 0 right afterwards, so the first update()  *)
(* after a pause, with no step queued since, is a no-op.                   *)
C33_PauseClearsPending ==
    [][(~state.paused /\ state'.paused) =>
          /\ state'.pending_ticks = 0
          /\ ~is_running(state')]_vars

(* What of C33 the program does: toggle_pause, when it pauses, clears the  *)
(* pending steps.                                                          *)
C33_TogglePauseClearsPending ==
    ~state.paused =>
        /\ toggle_pause(state).paused
        /\ toggle_pause(state).pending_ticks = 0
        /\ ~is_running(toggle_pause(state))

---------------------------------------------------------------------------
(* One due move of a WANDERING agent, for every energy in PayEnergies and  *)
(* every energy_drain_per_move in Drains.                                  *)

Drains == 0 .. 3

PayEnergies == 1 .. 3

PayInit ==
    /\ state = NewSimulationState
    /\ \E c \in Cells, d \in DIRECTIONS, e \in PayEnergies, drain \in Drains :
          agents = <<[NewAgent(1, c[1], c[2], d, 0) EXCEPT
                         !.tick_counter = BASE_MOVE_INTERVAL_TICKS - 1,
                         !.traits.energy = e,
                         !.traits.energy_drain_per_move = drain]>>
    /\ food = <<>>
    /\ selected_agent = None
    /\ food_spawn_timer = 0
    /\ op = "construct"
    /\ obs = NoObs
    /\ queued = NoQueue
    /\ files = NoFiles
    /\ yaml_io = NoCall

PayStep ==
    /\ op = "construct"
    /\ \E redirect \in Redirects :
          agents' = <<execute_current_state(agents[1], food, redirect)>>
    /\ obs' = [NoObs EXCEPT !.before = agents]
    /\ op' = "pay"
    /\ UNCHANGED <<state, food, selected_agent, food_spawn_timer, queued, editor>>

PayNext == PayStep

PaySpec == PayInit /\ [][PayNext]_vars

(* C34: every agent's traits.energy is >= 0, for any non-negative          *)
(* energy_drain_per_move and initial energy, also in the tick in which     *)
(* the agent dies of energy exhaustion.                                    *)
C34_EnergyNeverNegative ==
    \A i \in 1 .. Len(agents) : agents[i].traits.energy >= 0

(* What of C34 the program does: a move takes energy_drain_per_move off    *)
(* the energy, whatever is left, and the agent is alive iff that is > 0.   *)
C34_EnergyAfterMove ==
    op = "pay" =>
        /\ agents[1].traits.energy
              = obs.before[1].traits.energy - obs.before[1].traits.energy_drain_per_move
        /\ agents[1].alive <=> agents[1].traits.energy > 0

(* C34 with the energies and the drain of the configuration, where the     *)
(* drain divides every energy: no agent is seen below 0.                   *)
C34_EnergyNonNegativeAsConfigured ==
    /\ \A i \in 1 .. Len(agents) : agents[i].traits.energy >= 0
    /\ Ran => \A i \in 1 .. Len(obs.updated) : obs.updated[i].traits.energy >= 0

---------------------------------------------------------------------------
---------------------------------------------------------------------------
---------------------------------------------------------------------------
(* C37: between resets the number of agents never increases, and every     *)
(* agent is removed no later than the executed tick in which its age       *)
(* reaches max_age; so after max_age executed ticks from construction or   *)
(* reset the agent collection is empty, and stays empty.                   *)
C37_AgentsOnlyLeave ==
    [][/\ op' # "construct" =>
             /\ Len(agents') <= Len(agents)
             /\ AgentIds(agents') \subseteq AgentIds(agents)
       /\ \A i \in 1 .. Len(agents') :
             /\ agents'[i].traits.age = state'.tick_count
             /\ agents'[i].traits.age < agents'[i].traits.max_age
       /\ state'.tick_count >= BASE_MAX_AGE_TICKS => agents' = <<>>]_vars

C37_Witness ==
    /\ Ran
    /\ state.tick_count = BASE_MAX_AGE_TICKS
    /\ Len(obs.before) > 0
    /\ agents = <<>>
    /\ food # <<>>

(* A later executed tick that finds the collection empty and leaves it so.  *)
C37_StaysEmpty ==
    /\ Ran
    /\ state.tick_count > BASE_MAX_AGE_TICKS
    /\ obs.before = <<>>
    /\ agents = <<>>

---------------------------------------------------------------------------
(* The squared distance of sensing on its own, both ways between every     *)
(* two cells of grids of every width up to MaxCols.                        *)

DistInit ==
    /\ state = NewSimulationState
    /\ agents = <<>>
    /\ food = <<>>
    /\ selected_agent = None
    /\ food_spawn_timer = 0
    /\ op = "construct"
    /\ \E cols \in 1 .. MaxCols :
          \E ax \in 0 .. cols - 1, bx \in 0 .. cols - 1,
             ay \in 0 .. GRID_ROWS - 1, by \in 0 .. GRID_ROWS - 1 :
              obs = [NoObs EXCEPT !.input = <<cols, ax, ay, bx, by>>]
    /\ queued = NoQueue
    /\ files = NoFiles
    /\ yaml_io = NoCall

DistStep ==
    /\ op = "construct"
    /\ LET cols == obs.input[1]
           ax == obs.input[2]
           ay == obs.input[3]
           bx == obs.input[4]
           by == obs.input[5]
       IN obs' = [obs EXCEPT !.output = <<DistSq(ax, ay, bx, by, cols),
                                          DistSq(bx, by, ax, ay, cols)>>]
    /\ op' = "dist"
    /\ UNCHANGED <<world, queued, editor>>

DistNext == DistStep

DistSpec == DistInit /\ [][DistNext]_vars

(* C38: the wrap-aware squared distance of sensing is symmetric: on every  *)
(* grid width and for all cells a and b, the distance from a to b equals   *)
(* the distance from b to a, so whether one is in sight of the other does  *)
(* not depend on which lies to the east.                                   *)
C38_DistanceSymmetric ==
    op = "dist" =>
        /\ obs.output[1] = obs.output[2]
        /\ \A v \in VisionRanges : obs.output[1] <= v * v <=> obs.output[2] <= v * v

(* What of C38 the program does: the same on the even widths.              *)
C38_DistanceSymmetricEvenWidth ==
    (op = "dist" /\ obs.input[1] % 2 = 0) => obs.output[1] = obs.output[2]

---------------------------------------------------------------------------
(* C39: in every state reachable by any interleaving of pause, start,      *)
(* step_once, step_many, reset and update(), pending_ticks > 0 implies     *)
(* paused: steps are owed only while paused, and resuming never carries    *)
(* queued steps into the running state.                                    *)
C39_PendingOnlyWhilePaused ==
    state.pending_ticks > 0 => state.paused

(* What of C39 the program does: pending_ticks rises only while paused,    *)
(* and is never negative.                                                  *)
C39_PendingRisesOnlyWhilePaused ==
    [][/\ state'.pending_ticks >= 0
       /\ state'.pending_ticks > state.pending_ticks => (state.paused /\ state'.paused)]_vars

---------------------------------------------------------------------------
(* A chase: a seeker with a full store of energy and either vision range,  *)
(* behind a wanderer in collection order, and one pellet; the ticks are    *)
(* those of the world.                                                     *)

WandererStarts == {<<<<0, 0>>, "E">>, <<<<2, 1>>, "W">>, <<<<3, 0>>, "E">>}

ChaseInit ==
    /\ state = NewSimulationState
    /\ \E w \in WandererStarts, c \in Cells, v \in VisionRanges :
          agents = <<NewAgent(1, w[1][1], w[1][2], w[2], 0),
                     [NewAgent(2, c[1], c[2], "N", 1) EXCEPT
                         !.traits.vision_range = v,
                         !.traits.energy = BASE_MAX_ENERGY]>>
    /\ \E f \in Cells :
          food = <<FoodPellet(1, f[1], f[2], FOOD_LIFESPAN_TICKS, FOOD_ENERGY_VALUE),
                   FoodPellet(2, 3, 1, FOOD_LIFESPAN_TICKS, FOOD_ENERGY_VALUE)>>
    /\ selected_agent = None
    /\ food_spawn_timer = 0
    /\ op = "construct"
    /\ obs = NoObs
    /\ queued = NoQueue
    /\ files = NoFiles
    /\ yaml_io = NoCall

ChaseNext == Tick

ChaseSpec == ChaseInit /\ [][ChaseNext]_vars

Chasing(i) ==
    \* the last update() found agent i in SEEKING_FOOD holding a pellet that is
    \* active and not on its cell, and left it alive, in SEEKING_FOOD, with
    \* that pellet still the nearest in sight
    /\ Transitioned(i)
    /\ obs.before[i].current_behavior_state = SEEKING_FOOD
    /\ obs.before[i].target # None
    /\ TargetValid(obs.before[i], obs.aged_food)
    /\ TorusDist(obs.before[i], PelletById(obs.aged_food, obs.before[i].target),
                 GRID_COLS) > 0
    /\ obs.updated[i].alive
    /\ obs.updated[i].current_behavior_state = SEEKING_FOOD
    /\ TransitionOf(i).target = obs.before[i].target

TicksLeft(a, p) ==
    \* executed ticks until a, moving one cell nearer every interval, is on p
    (TorusDist(a, p, GRID_COLS) - 1) * a.traits.move_interval_ticks
       + (a.traits.move_interval_ticks - a.tick_counter)

====
